---- MODULE Spec2Model ----
(***************************************************************************)
(* Model of the statement translator of gotoc (src/gotoc/stmt.go).         *)
(*                                                                         *)
(* The translator is a function from a typed Go AST to C text.  Each       *)
(* scenario below draws a statement from a bounded set of ASTs, applies    *)
(* the translation of stmt.go to it and, where a property speaks about the *)
(* behaviour of the emitted C, executes the emitted statements one by one  *)
(* on a small machine state.                                               *)
(***************************************************************************)
EXTENDS Integers, Sequences, FiniteSets, TLC

VARIABLES
    scen,    \* which statement kind is being translated
    input,   \* the typed AST handed to the translator (and the initial machine state)
    out,     \* the emitted C: a sequence of statements / lines
    flag,    \* the "end" result of Stmt / BlockStmt / ReturnStmt
    pc,      \* 0: not translated yet; k >= 1: next emitted statement to execute
    st,      \* machine state of the emitted C program
    trace    \* what the emitted program has done so far

vars == <<scen, input, out, flag, pc, st, trace>>

-----------------------------------------------------------------------------
(* Bounds *)

\* array length; also the range 0..ArrLen-1 of integer values and indices
ArrLen == 2
\* largest number of left-hand sides of a tuple assignment
MaxTup == 3
\* first identifier handed out by uniqueId is drawn from 0..MaxUid
MaxUid == 1

Vals == 0 .. (ArrLen - 1)

-----------------------------------------------------------------------------
(* Go expressions (typed AST).  Types are denoted by the kind of their     *)
(* underlying type: "int", "slice", "map", "chan", "ptr", "iface",          *)
(* "struct", "tuple", "untyped nil"; "" is the nil (absent) type.           *)
(*   [k |-> "const", v]        integer constant                            *)
(*   [k |-> "ident", n, o, t]  identifier of type t; o is the kind of      *)
(*                             object the frontend resolved it to          *)
(*                             ("local", "nil")                            *)
(*   [k |-> "index", x, i]     x[i] with x an array variable               *)
(*   [k |-> "call",  f]        call of a tuple-returning function          *)

Const(v)    == [k |-> "const", v |-> v]
TIdent(n, t) == [k |-> "ident", n |-> n, o |-> "local", t |-> t]
Ident(n)    == TIdent(n, "int")
NilLit      == [k |-> "ident", n |-> "nil", o |-> "nil", t |-> "untyped nil"]
BlankUse    == [k |-> "ident", n |-> "_", o |-> "nil", t |-> ""]      \* `_` on the left of =
BlankDef    == [k |-> "ident", n |-> "_", o |-> "local", t |-> "int"] \* `_` on the left of :=
Index(x, i) == [k |-> "index", x |-> x, i |-> i]
Call(f)     == [k |-> "call", f |-> f]
\* func() resultT { body }: tup lists the result types
FuncLit(resultT, tup, body) ==
    [k |-> "funclit", resultT |-> resultT, tup |-> tup, body |-> body]

\* T{elts...}: t is the kind of T ("array", "slice", "struct"), et its
\* element type, ft the types of its fields
CompositeLit(t, et, ft, elts) ==
    [k |-> "complit", t |-> t, et |-> et, ft |-> ft, elts |-> elts]
\* fun(args...) with result type t; params are the parameter types of fun
CallX(fun, args, params, t) ==
    [k |-> "callx", fun |-> fun, args |-> args, params |-> params, t |-> t]

\* x op y
BinaryExpr(op, x, y) == [k |-> "binary", op |-> op, x |-> x, y |-> y]

\* the type the frontend recorded for an expression
RECURSIVE exprType(_)
exprType(e) ==
    CASE e.k = "const" -> "int"
      [] e.k = "ident" -> e.t
      [] e.k = "index" -> "int"
      [] e.k = "call"  -> IF "t" \in DOMAIN e THEN e.t ELSE "tuple"
      [] e.k = "funclit" -> "func"
      [] e.k \in {"complit", "callx"} -> e.t
      [] e.k = "binary" -> IF e.op \in {"==", "!="} THEN "bool" ELSE exprType(e.x)
      [] e.k \in {"unary", "paren"} -> exprType(e.x)
      [] e.k = "star" -> "int"

\* op x and *x
UnaryExpr(op, x) == [k |-> "unary", op |-> op, x |-> x]
StarExpr(x) == [k |-> "star", x |-> x]

\* (x)
ParenExpr(x) == [k |-> "paren", x |-> x]

\* f() with a result of type t
TCall(f, t) == [k |-> "call", f |-> f, t |-> t]

\* What go/types knows about the types of the scenarios.  Besides the kinds
\* above there are the defined types
\*   Any         interface{}                  (a named empty interface)
\*   Reader      interface{ Read() }
\*   ReadWriter  interface{ Read(); Write() }
\*   T           a word-sized type with  func (T) Read()  and  func (*T) Write()
\*   Big         a struct of two words with  func (Big) Read()
\* and the pointer types *T and *Big.  "ifaceM" is an unnamed interface{ m() }.
IsInterface(t) == t \in {"iface", "ifaceM", "Any", "Reader", "ReadWriter"}

\* it.Method(i) for i < it.NumMethods(): the methods of an interface, by name
Methods(t) ==
    CASE t = "ifaceM"     -> << "m" >>
      [] t = "Reader"     -> << "Read" >>
      [] t = "ReadWriter" -> << "Read", "Write" >>
      [] OTHER            -> << >>

\* t.Elem() of a pointer to a defined type
Elem(t) == CASE t = "*T" -> "T" [] t = "*Big" -> "Big" [] OTHER -> t

\* the size of a pointer (cdd.gtc.sizPtr) and of a value of each type
\* (cdd.gtc.siz.Sizeof), in words
sizPtr == 1

Sizeof_Word(t) == 1

Sizeof(t) ==
    CASE t \in {"Big", "string", "iface", "Any"} -> 2
      [] t = "slice" -> 3
      [] IsInterface(t) -> 2 + Len(Methods(t))
      [] OTHER -> 1

\* m.Type().(*types.Signature).Recv().Type() for the method found by
\* findMethod(t, fname) on the defined type t
RecvType(t, fname) ==
    CASE t = "T" /\ fname = "Write" -> "*T"
      [] OTHER -> t

\* CDD.Name for the objects of these scenarios: the nil object, an object
\* local to a function body, an object of package pkg that is not local,
\* an object of the imported package lib
Name(n, o) ==
    CASE o = "nil"   -> "_"
      [] o = "pkg"   -> "pkg$" \o n
      [] o = "lib"   -> "lib$" \o n
      [] OTHER       -> n \o "$"

NameStr(n, o) == Name(n, o)

\* CDD.Nil: the text of nil for a hint type
Nil(t) ==
    CASE t = "slice" -> "NILSLICE"
      [] t = "map"   -> "NILMAP"
      [] t = "chan"  -> "NILCHAN"
      [] t \in {"ptr", "int", "func"} -> "nil"
      [] t = "iface" -> "(" \o t \o "){}"
      [] OTHER -> "'unknown nil"

\* the C expression x followed by the selector text f
Sel(x, f) == [k |-> "sel", x |-> x, f |-> f]

\* eq: the comparison of lhs and rhs
\*   [k |-> "cmp", l, op, r]       (l op r)
\*   [k |-> "equali", neg, l, r]   EQUALI(l, r), negated for !=
\*   [k |-> "equals", neg, l, r]   equals(l, r), negated for !=
eq(lhs, op, rhs, ltyp, rtyp) ==
    LET typ == IF ltyp = "untyped nil" THEN rtyp ELSE ltyp
    IN  CASE typ = "slice" ->
                IF rtyp = "untyped nil"
                THEN [k |-> "cmp", l |-> Sel(lhs, ".arr"), op |-> op,
                      r |-> [k |-> "name", n |-> "nil"]]
                ELSE [k |-> "cmp", l |-> [k |-> "name", n |-> "nil"], op |-> op,
                      r |-> Sel(rhs, ".arr")]
          [] IsInterface(typ) ->
                LET sel == IF Methods(typ) = << >> THEN "" ELSE ".interface"
                IN  IF rtyp = "untyped nil"
                    THEN [k |-> "equali", neg |-> (op = "!="), l |-> Sel(lhs, sel),
                          r |-> [k |-> "name", n |-> "NILI"]]
                    ELSE [k |-> "equali", neg |-> (op = "!="),
                          l |-> [k |-> "name", n |-> "NILI"], r |-> Sel(rhs, sel)]
          [] typ = "string" ->
                [k |-> "equals", neg |-> (op = "!="), l |-> lhs, r |-> rhs]
          [] OTHER -> [k |-> "cmp", l |-> lhs, op |-> op, r |-> rhs]

\* a line of emitted C that is no assignment: a keyword, a label, a brace
Line(k, lab, e) == [k |-> k, lab |-> lab, e |-> e]

RECURSIVE Expr(_, _)
RECURSIVE CallExpr(_)
RECURSIVE Stmt(_, _, _, _)
RECURSIVE BlockStmt(_, _, _)
RECURSIVE BlockList(_, _, _, _)

\* gtc.FuncDecl for the function literal fd: the definition (c.Def) holds the
\* body translated by BlockStmt against the literal's own result type, and
\* the end label when the body asked for it
FuncDecl(fd) ==
    LET b == BlockStmt(fd.body, fd.resultT, fd.tup)
    IN  << Line("funcdef", "func$", <<>>) >> \o b.text
        \o (IF b.end THEN << Line("label", "end", <<>>) >> ELSE <<>>)

\* CDD.Expr: the emitted C expression
\*   [k |-> "lit", v]  [k |-> "name", n]  [k |-> "elem", xs, idx]
\*   [k |-> "call", f] [k |-> "field", x, f]
\*   [k |-> "complit", t, elts]   (T){elts...}
\*   [k |-> "callx", f, recv, args] and [k |-> "icall", ...]: see CallExpr
\*   [k |-> "closure", fd]    ({ <FuncDecl(fd)> func$; }): the definition
\*                            that gtc.FuncDecl writes for the literal fd
Expr(e, nilT) ==
    CASE e.k = "const" -> [k |-> "lit", v |-> e.v]
      [] e.k = "funclit" -> [k |-> "closure", fd |-> e]
      [] e.k = "ident" /\ e.n = "nil" -> [k |-> "name", n |-> Nil(nilT)]
      [] e.k = "ident" /\ e.n # "nil" -> [k |-> "name", n |-> Name(e.n, e.o)]
      [] e.k = "index" ->
            [k |-> "elem", xs |-> Name(e.x, "local"), idx |-> Expr(e.i, "")]
      [] e.k = "call"  -> [k |-> "call", f |-> Name(e.f, "local")]
      [] e.k = "callx" -> CallExpr(e)
      [] e.k = "binary" ->
            IF e.op \in {"==", "!="}
            THEN eq(Expr(e.x, exprType(e.x)), e.op, Expr(e.y, exprType(e.y)),
                    exprType(e.x), exprType(e.y))
            ELSE [k |-> "binop", l |-> Expr(e.x, exprType(e.x)),
                  op |-> IF e.op = "&^" THEN "&~" ELSE e.op,
                  r |-> Expr(e.y, exprType(e.y))]
      [] e.k = "complit" ->
            [k |-> "complit", t |-> e.t,
             elts |-> [i \in 1 .. Len(e.elts) |->
                          Expr(e.elts[i], IF e.t = "struct" THEN e.ft[i] ELSE e.et)]]
      \* lines 1276-1303; the receive is written as RECV(type, channel, zero)
      [] e.k = "unary" ->
            IF e.op = "<-" THEN [k |-> "recv", x |-> Expr(e.x, "")]
            ELSE [k |-> "unop", op |-> IF e.op = "^" THEN "~" ELSE e.op,
                  x |-> Expr(e.x, "")]
      [] e.k = "star" -> [k |-> "unop", op |-> "*", x |-> Expr(e.x, "")]
      [] e.k = "paren" -> [k |-> "paren", x |-> Expr(e.x, nilT)]
      [] e.k = "typeassert" -> [k |-> "notImplemented", e |-> e.k]
      \* the default case writes "!%v<%T>!" for the node and returns
      [] OTHER -> [k |-> "placeholder", e |-> e.k]

ExprStr(e, nilT) == Expr(e, nilT)

\* CDD.Name for a method of the defined type t: the type, `$`, the name
MethodName(t, fname) == t \o "$" \o fname

\* lines 1797-1818: the initialiser of method slot fname when a value of
\* type etyp is boxed: the wrapper `T$m$` when the receiver is not of
\* pointer size, else the method itself under a cast to the slot's type
MethodSlot(etyp, fname) ==
    [m  |-> fname,
     fn |-> IF Sizeof(RecvType(Elem(etyp), fname)) # sizPtr
            THEN [k |-> "name", n |-> MethodName(Elem(etyp), fname) \o "$"]
            ELSE [k |-> "cast", n |-> MethodName(Elem(etyp), fname)]]

\* cdd.exit(pos, ...): the fatal error reported for the position of expr;
\* the translation stops
exit(expr) == [k |-> "exit", pos |-> expr]

\* lines 1745-1824 with e the text of the expression
\*   [k |-> "exit", pos]             cdd.exit(expr.Pos(), ...): nothing written
\*   [k |-> "box", e, t]             INTERFACE(e, <type id of t>)
\*   [k |-> "ibox", t, box, slots]   (t){ .interface = box, .m = fn, ... }
\*   [k |-> "sel", x, f]             x.interface
\*   [k |-> "iconv", t, et, tmp, box, slots]
\*                                   ({ et e = tmp; (t){ .interface = box, .m = e.m, ... } })
Boxed(expr, e, etyp, ityp) ==
    IF ~IsInterface(etyp) /\ Sizeof(etyp) > sizPtr
    THEN exit(expr)
    ELSE IF IsInterface(etyp)
    THEN IF Methods(ityp) = << >>
         THEN Sel(e, ".interface")
         ELSE [k |-> "iconv", t |-> ityp, et |-> etyp, tmp |-> e,
               box |-> Sel([k |-> "name", n |-> "e"], ".interface"),
               slots |-> [i \in 1 .. Len(Methods(ityp)) |->
                            [m  |-> Methods(ityp)[i],
                             fn |-> Sel([k |-> "name", n |-> "e"],
                                        "." \o Methods(ityp)[i])]]]
    ELSE IF Methods(ityp) = << >>
    THEN [k |-> "box", e |-> e, t |-> etyp]
    ELSE [k |-> "ibox", t |-> ityp, box |-> [k |-> "box", e |-> e, t |-> etyp],
          slots |-> [i \in 1 .. Len(Methods(ityp)) |->
                        MethodSlot(etyp, Methods(ityp)[i])]]

Unboxed_NilBoxed(etyp, ityp) ==
    \/ ityp = "" \/ etyp = ""
    \/ ~IsInterface(ityp) \/ ityp = etyp

\* lines 1732-1743: the cases in which the expression is written as it is
Unboxed(etyp, ityp) ==
    \/ ityp = "" \/ etyp = ""
    \/ ~IsInterface(ityp) \/ ityp = etyp
    \/ etyp = "untyped nil"

\* CDD.interfaceExpr
interfaceExpr(e, ityp) ==
    IF Unboxed(exprType(e), ityp) THEN ExprStr(e, ityp)
    ELSE Boxed(e, ExprStr(e, ityp), exprType(e), ityp)

interfaceExprStr(e, ityp) == interfaceExpr(e, ityp)

\* the characters a C expression is written with
RECURSIVE CText(_)
CText(ce) ==
    CASE ce.k = "lit"   -> IF ce.v < 0 THEN "(" \o ToString(ce.v) \o ")" ELSE ToString(ce.v)
      [] ce.k = "name"  -> ce.n
      [] ce.k = "elem"  -> ce.xs \o "[" \o CText(ce.idx) \o "]"
      [] ce.k = "call"  -> ce.f \o "()"
      [] ce.k = "field" -> ce.x \o "._" \o ToString(ce.f)
      [] ce.k = "sel"   -> CText(ce.x) \o ce.f
      [] ce.k = "box"   -> "INTERFACE(" \o CText(ce.e) \o ", tid:" \o ce.t \o ")"
      [] ce.k = "ibox"  -> "(" \o ce.t \o "){.interface = " \o CText(ce.box) \o ", ...}"
      [] ce.k = "iconv" -> "({" \o ce.et \o " e = " \o CText(ce.tmp) \o "; ("
                           \o ce.t \o "){.interface = e.interface, ...}})"

\* the text "_" as lhs[i]
Underscore == [k |-> "name", n |-> "_"]

-----------------------------------------------------------------------------
(* CDD.Stmt, case *ast.AssignStmt.                                          *)
(* An assignment is [Tok, Lhs, Rhs, newv]: newv is the set of positions i   *)
(* for which the frontend recorded a definition (ti.Defs) of Lhs[i].        *)
(* Emitted C statements:                                                    *)
(*   [k |-> "init", t, n, r]   "t n = r;"                                   *)
(*   [k |-> "void", r]         "(void)(r);"                                 *)
(*   [k |-> "asg", l, op, r]   "l op r;"  (l may be the text "t n")         *)

rhsIsTuple(s) == Len(s.Lhs) > 1 /\ Len(s.Rhs) = 1

TupTmp(uid) == "tmp" \o ToString(uid)

\* a translator that binds the tuple fields in reverse
AssignRhs_Reversed(s, uid) ==
    IF rhsIsTuple(s)
    THEN [i \in 1 .. Len(s.Lhs) |->
            [k |-> "field", x |-> TupTmp(uid), f |-> Len(s.Lhs) - i]]
    ELSE [i \in 1 .. Len(s.Rhs) |-> ExprStr(s.Rhs[i], exprType(s.Lhs[i]))]

\* rhs[i] as left by lines 83-118
AssignRhs(s, uid) ==
    IF rhsIsTuple(s)
    THEN [i \in 1 .. Len(s.Lhs) |-> [k |-> "field", x |-> TupTmp(uid), f |-> i - 1]]
    ELSE [i \in 1 .. Len(s.Rhs) |->
            IF s.Tok = ":="
            THEN ExprStr(s.Rhs[i], exprType(s.Lhs[i]))
            ELSE interfaceExprStr(s.Rhs[i], exprType(s.Lhs[i]))]

\* typ[i] as left by lines 83-118 ("" is the nil type)
AssignTyp(s) ==
    [i \in 1 .. Len(s.Lhs) |->
        IF s.Tok = ":="
        THEN (IF i \in s.newv THEN exprType(s.Lhs[i]) ELSE "")
        ELSE (IF rhsIsTuple(s) THEN "" ELSE exprType(s.Lhs[i]))]

\* lhs[i], lines 120-138
AssignLhs(s) ==
    [i \in 1 .. Len(s.Lhs) |->
        IF s.Tok = ":="
        THEN LET name == NameStr(s.Lhs[i].n, s.Lhs[i].o)
             IN  IF name = "_$" THEN Underscore
                 ELSE IF AssignTyp(s)[i] # ""
                      THEN [k |-> "vardecl", t |-> AssignTyp(s)[i], n |-> name]
                      ELSE [k |-> "name", n |-> name]
        ELSE ExprStr(s.Lhs[i], "")]

\* a translator that goes straight to the stores
UsesTemporaries_Never(s) == FALSE

\* the condition of line 140
UsesTemporaries(s) ==
    Len(s.Rhs) = Len(s.Lhs) /\ Len(s.Lhs) > 1 /\ s.Tok # ":="

IsUnderscore(l) == l.k = "name" /\ l.n = "_"

\* the name line 151 gives the temporary of component i
TmpName(s, uid, i) ==
    "tmp" \o ToString(uid +
        Cardinality({j \in 1 .. (i - 1) : ~IsUnderscore(AssignLhs(s)[j])}))

\* lines 140-158: the statements that fill the temporaries
TempStmts(s, uid) ==
    IF UsesTemporaries(s)
    THEN [i \in 1 .. Len(s.Lhs) |->
            IF IsUnderscore(AssignLhs(s)[i])
            THEN [k |-> "void", r |-> AssignRhs(s, uid)[i]]
            ELSE [k |-> "init", t |-> AssignTyp(s)[i], n |-> TmpName(s, uid, i),
                  r |-> AssignRhs(s, uid)[i]]]
    ELSE <<>>

\* rhs[i] after line 154
StoreRhs(s, uid) ==
    [i \in 1 .. Len(s.Lhs) |->
        IF UsesTemporaries(s) /\ ~IsUnderscore(AssignLhs(s)[i])
        THEN [k |-> "name", n |-> TmpName(s, uid, i)]
        ELSE AssignRhs(s, uid)[i]]

\* lines 160-171
Atok(s) == IF s.Tok = ":=" THEN " = " ELSE " " \o s.Tok \o " "

RECURSIVE StoreFrom(_, _, _)
\* lines 172-193: the store loop, from component i on
StoreFrom(s, uid, i) ==
    IF i > Len(s.Lhs) THEN <<>>
    ELSE LET li == AssignLhs(s)[i]
             this == IF IsUnderscore(li) /\ rhsIsTuple(s) THEN <<>>
                     ELSE IF IsUnderscore(li)
                          THEN << [k |-> "void", r |-> StoreRhs(s, uid)[i]] >>
                          ELSE << [k |-> "asg", l |-> li, op |-> Atok(s),
                                   r |-> StoreRhs(s, uid)[i]] >>
         IN  this \o StoreFrom(s, uid, i + 1)

StoreStmts(s, uid) == StoreFrom(s, uid, 1)

\* lines 83-91: the temporary of a tuple-valued right-hand side
TuplePrelude(s, uid) ==
    IF rhsIsTuple(s)
    THEN << [k |-> "init", t |-> "tuple", n |-> TupTmp(uid), r |-> ExprStr(s.Rhs[1], "")] >>
    ELSE <<>>

AssignStmt(s, uid) == TuplePrelude(s, uid) \o TempStmts(s, uid) \o StoreStmts(s, uid)

-----------------------------------------------------------------------------
(* Execution of the emitted C statements.                                   *)
(* Machine state: vars (scalar variables by C name), arr (the array a$),    *)
(* tups (tuple-typed temporaries), calls (number of calls of f$ so far).    *)

RECURSIVE Eval(_, _)
Eval(ce, m) ==
    CASE ce.k = "lit"   -> ce.v
      [] ce.k = "name"  -> m.vars[ce.n]
      [] ce.k = "elem"  -> m.arr[Eval(ce.idx, m) + 1]
      [] ce.k = "field" -> m.tups[ce.x][ce.f + 1]

\* ret is the tuple the called function returns
ExecC(c, m, ret) ==
    CASE c.k = "init" /\ c.r.k = "call" ->
            [m EXCEPT !.tups = (c.n :> ret) @@ m.tups, !.calls = m.calls + 1]
      [] c.k = "init" /\ c.r.k # "call" ->
            [m EXCEPT !.vars = (c.n :> Eval(c.r, m)) @@ m.vars]
      [] c.k = "void" -> m
      [] c.k = "asg" /\ c.l.k = "vardecl" ->
            [m EXCEPT !.vars = (c.l.n :> Eval(c.r, m)) @@ m.vars]
      [] c.k = "asg" /\ c.l.k = "name" ->
            [m EXCEPT !.vars = (c.l.n :> Eval(c.r, m)) @@ m.vars]
      [] c.k = "asg" /\ c.l.k = "elem" ->
            [m EXCEPT !.arr[Eval(c.l.idx, m) + 1] = Eval(c.r, m)]

-----------------------------------------------------------------------------
(* Reference semantics of a Go assignment (the language definition): first  *)
(* the index operands of the left-hand sides and the right-hand sides are   *)
(* evaluated, then the stores happen from left to right.  The Go state is   *)
(* [vars, arr] with vars keyed by the Go names.                             *)

RECURSIVE GoEval(_, _)
GoEval(e, g) ==
    CASE e.k = "const" -> e.v
      [] e.k = "ident" -> g.vars[e.n]
      [] e.k = "index" -> g.arr[GoEval(e.i, g) + 1]

GoTarget(e, g) ==
    CASE e.k = "ident" /\ e.n = "_" -> [k |-> "none", n |-> "", p |-> 0]
      [] e.k = "ident" /\ e.n # "_" -> [k |-> "var", n |-> e.n, p |-> 0]
      [] e.k = "index"              -> [k |-> "slot", n |-> e.x, p |-> GoEval(e.i, g)]

GoStore(tg, v, g) ==
    CASE tg.k = "none" -> g
      [] tg.k = "var"  -> [g EXCEPT !.vars = (tg.n :> v) @@ g.vars]
      [] tg.k = "slot" -> [g EXCEPT !.arr[tg.p + 1] = v]

RECURSIVE GoStores(_, _, _, _)
GoStores(tgs, vs, i, g) ==
    IF i > Len(tgs) THEN g
    ELSE GoStores(tgs, vs, i + 1, GoStore(tgs[i], vs[i], g))

GoAssign(s, ret, g) ==
    LET tgs == [i \in 1 .. Len(s.Lhs) |-> GoTarget(s.Lhs[i], g)]
        vs  == IF Len(s.Rhs) = 1 /\ Len(s.Lhs) > 1
               THEN ret
               ELSE [i \in 1 .. Len(s.Rhs) |-> GoEval(s.Rhs[i], g)]
    IN  GoStores(tgs, vs, 1, g)

\* the machine state m of the emitted C holds the Go state g
Agrees(m, g) ==
    /\ m.arr = g.arr
    /\ \A n \in DOMAIN g.vars :
          /\ (n \o "$") \in DOMAIN m.vars
          /\ m.vars[n \o "$"] = g.vars[n]

-----------------------------------------------------------------------------
(* Scenario "assign": one assignment statement is translated and executed.  *)

AssignLvals == {Ident("i"), Index("a", Ident("i")), Index("a", Ident("j")), BlankUse}

AssignRvals ==
    {Const(0), Const(ArrLen - 1), Ident("i"), Index("a", Ident("i")),
     Index("a", Ident("j"))}

\* l1, l2 = r1, r2
ParallelStmts ==
    {[Tok |-> "=", Lhs |-> <<l1, l2>>, Rhs |-> <<r1, r2>>, newv |-> {}] :
        l1 \in AssignLvals, l2 \in AssignLvals, r1 \in AssignRvals, r2 \in AssignRvals}

\* l1, l2 := r1, r2 where n is new and the other variable was declared before
DefineStmts ==
    {[Tok |-> ":=", Lhs |-> <<Ident("n"), l>>, Rhs |-> <<r1, r2>>, newv |-> {1}] :
        l \in {Ident("i"), Ident("j"), BlankDef}, r1 \in AssignRvals, r2 \in AssignRvals}
    \cup
    {[Tok |-> ":=", Lhs |-> <<l, Ident("n")>>, Rhs |-> <<r1, r2>>, newv |-> {2}] :
        l \in {Ident("i"), Ident("j"), BlankDef}, r1 \in AssignRvals, r2 \in AssignRvals}

\* x1, ..., xk = f()   and   x1, ..., xk := f()
TupleLhsUse(k) == [1 .. k -> {Ident("i"), Ident("j"), Index("a", Ident("i")), BlankUse}]

NewVar(i) == Ident("n" \o ToString(i))

TupleLhsDef(k) ==
    {l \in [1 .. k -> {Ident("i"), BlankDef} \cup {NewVar(i) : i \in 1 .. k}] :
        /\ \A i \in 1 .. k : l[i].n \notin {"i", "_"} => l[i] = NewVar(i)
        /\ \E i \in 1 .. k : l[i] = NewVar(i)}

TupleStmts(k) ==
    {[Tok |-> "=", Lhs |-> l, Rhs |-> <<Call("f")>>, newv |-> {}] : l \in TupleLhsUse(k)}
    \cup
    {[Tok |-> ":=", Lhs |-> l, Rhs |-> <<Call("f")>>,
      newv |-> {i \in 1 .. k : l[i] = NewVar(i)}] : l \in TupleLhsDef(k)}

\* what f returns: k values that are valid indices
TupleRets(k) == {[i \in 1 .. k |-> (i - 1) % ArrLen], [i \in 1 .. k |-> (k - i) % ArrLen]}

\* initial Go states: i, j are valid indices, the array holds distinct values
GoArrays == {[p \in 1 .. ArrLen |-> p - 1], [p \in 1 .. ArrLen |-> ArrLen - p]}

GoStates ==
    {[vars |-> ("i" :> i) @@ ("j" :> j), arr |-> a] :
        i \in Vals, j \in Vals, a \in GoArrays}

\* the machine state in which the emitted C starts
Machine(g) ==
    [vars  |-> [c \in {n \o "$" : n \in DOMAIN g.vars} |->
                   g.vars[CHOOSE n \in DOMAIN g.vars : n \o "$" = c]],
     arr   |-> g.arr,
     tups  |-> <<>>,
     calls |-> 0]

InitAssign ==
    /\ scen = "assign"
    /\ \/ \E s \in ParallelStmts \cup DefineStmts, u \in 0 .. MaxUid, g \in GoStates :
             input = [s |-> s, uid |-> u, g |-> g, ret |-> <<>>]
       \/ \E k \in 2 .. MaxTup :
             \E s \in TupleStmts(k), u \in 0 .. MaxUid, r \in TupleRets(k),
                g \in {x \in GoStates : x.vars["j"] = 0} :
                input = [s |-> s, uid |-> u, g |-> g, ret |-> r]
    /\ out = <<>>
    /\ flag = FALSE
    /\ pc = 0
    /\ st = Machine(input.g)
    /\ trace = <<>>

TranslateAssign ==
    /\ scen = "assign"
    /\ pc = 0
    /\ out' = AssignStmt(input.s, input.uid)
    /\ pc' = 1
    /\ UNCHANGED <<scen, input, flag, st, trace>>

\* one emitted statement runs
ExecAssign ==
    /\ scen = "assign"
    /\ pc >= 1
    /\ pc <= Len(out)
    /\ st' = ExecC(out[pc], st, input.ret)
    /\ trace' = Append(trace, out[pc].k)
    /\ pc' = pc + 1
    /\ UNCHANGED <<scen, input, out, flag>>

NextAssign == TranslateAssign \/ ExecAssign

SpecAssign == InitAssign /\ [][NextAssign]_vars

AssignDone == scen = "assign" /\ pc = Len(out) + 1

-----------------------------------------------------------------------------
(* Properties of the assignment translation                                 *)

PlainParallel(s) == s.Tok = "=" /\ Len(s.Lhs) = Len(s.Rhs) /\ Len(s.Lhs) >= 2

IsSwap(s) ==
    /\ PlainParallel(s)
    /\ s.Lhs[1].k = "index"
    /\ s.Lhs[2].k = "index"
    /\ s.Rhs = <<s.Lhs[2], s.Lhs[1]>>

ProgramNames == {n \o "$" : n \in {"i", "j", "a", "n", "f"}}

\* the emitted temporaries come first, one per stored component, each fresh
TempsBeforeStores(s, code) ==
    /\ \A a \in 1 .. Len(code), b \in 1 .. Len(code) :
          (code[a].k = "asg" /\ code[b].k = "init") => b < a
    /\ \A a \in 1 .. Len(code), b \in 1 .. Len(code) :
          (code[a].k = "init" /\ code[b].k = "init" /\ a # b) => code[a].n # code[b].n
    /\ \A a \in 1 .. Len(code) :
          code[a].k = "init" => code[a].n \notin ProgramNames
    /\ \A a \in 1 .. Len(code) :
          code[a].k = "asg" =>
              \E b \in 1 .. Len(code) :
                  /\ code[b].k = "init"
                  /\ code[a].r = [k |-> "name", n |-> code[b].n]
                  /\ \A c \in 1 .. Len(code) :
                        (code[c].k = "asg" /\ code[c].r = code[a].r) => c = a

C2_TwoPhase ==
    (AssignDone /\ ~rhsIsTuple(input.s) /\ Len(input.s.Lhs) >= 2) =>
        Agrees(st, GoAssign(input.s, input.ret, input.g))

\* the stores of  tmp := f(); x := tmp._0; y := tmp._1; ...  one after the other
RECURSIVE GoSeqStores(_, _, _, _)
GoSeqStores(lhs, vs, i, g) ==
    IF i > Len(lhs) THEN g
    ELSE GoSeqStores(lhs, vs, i + 1, GoStore(GoTarget(lhs[i], g), vs[i], g))

NonBlank(s) == {i \in 1 .. Len(s.Lhs) : s.Lhs[i].k = "index" \/ s.Lhs[i].n # "_"}

\* the i-th smallest element of a set of numbers
RECURSIVE Nth(_, _)
Nth(S, i) ==
    LET m == CHOOSE x \in S : \A y \in S : x <= y
    IN  IF i = 1 THEN m ELSE Nth(S \ {m}, i - 1)

\* C3: a tuple-valued right-hand side is evaluated once into one fresh
\* temporary; every non-blank left-hand side i is then assigned (declared, if
\* new) from field _i in increasing i, blank ones produce nothing, and the
\* effect is that of tmp := f(); x := tmp._0; y := tmp._1.
C3_TuplePassthrough ==
    (scen = "assign" /\ pc >= 1 /\ rhsIsTuple(input.s)) =>
        /\ Len(out) = 1 + Cardinality(NonBlank(input.s))
        /\ out[1].k = "init"
        /\ out[1].r = [k |-> "call", f |-> "f$"]
        /\ out[1].n \notin ProgramNames
        /\ \A j \in 1 .. Cardinality(NonBlank(input.s)) :
              LET i == Nth(NonBlank(input.s), j)
              IN  /\ out[1 + j].k = "asg"
                  /\ out[1 + j].r = [k |-> "field", x |-> out[1].n, f |-> i - 1]
                  /\ (out[1 + j].l.k = "vardecl") <=> (i \in input.s.newv)
                  /\ IF input.s.Lhs[i].k = "index"
                     THEN /\ out[1 + j].l.k = "elem"
                          /\ out[1 + j].l.xs = input.s.Lhs[i].x \o "$"
                          /\ out[1 + j].l.idx.n = input.s.Lhs[i].i.n \o "$"
                     ELSE out[1 + j].l.n = input.s.Lhs[i].n \o "$"
        /\ AssignDone =>
              /\ st.calls = 1
              /\ Agrees(st, GoSeqStores(input.s.Lhs, input.ret, 1, input.g))

\* x, _, y := f() style statement has run: a blank was skipped, a new variable
\* declared and an existing one assigned
C3_Witness ==
    /\ AssignDone
    /\ rhsIsTuple(input.s)
    /\ Len(input.s.Lhs) = 3
    /\ Cardinality(NonBlank(input.s)) = 2
    /\ input.s.newv # {}
    /\ \E i \in NonBlank(input.s) : i \notin input.s.newv

-----------------------------------------------------------------------------
(* Go statements (typed AST)                                                *)

NoStmt == [k |-> "none"]
ReturnS(results)        == [k |-> "return", results |-> results]
ExprS(x)                == [k |-> "expr", x |-> x]
IncDecS(tok, x)         == [k |-> "incdec", tok |-> tok, x |-> x]
BlockS(list)            == [k |-> "block", list |-> list]
IfS(init, cond, body, els) ==
    [k |-> "if", init |-> init, cond |-> cond, body |-> body, els |-> els]
ForS(init, hasCond, cond, post, body) ==
    [k |-> "for", init |-> init, hasCond |-> hasCond, cond |-> cond, post |-> post,
     body |-> body]
BranchS(tok, label)     == [k |-> "branch", tok |-> tok, label |-> label]
LabeledS(label, stmt)   == [k |-> "labeled", label |-> label, stmt |-> stmt]

\* the result of Stmt / BlockStmt / ReturnStmt: the text written to w and end
Emit(text, end) == [text |-> text, end |-> end]

\* a ReturnStmt that takes the tuple form whenever the function has results
ReturnStmt_TupleForOne(s, resultT, tup) ==
    IF Len(s.results) = 0
    THEN (IF resultT = "void"
          THEN Emit(<< Line("return", "return;", <<>>) >>, FALSE)
          ELSE Emit(<< Line("goto", "end", <<>>) >>, TRUE))
    ELSE Emit(<< Line("return", "return (" \o resultT \o "){...};",
                      [i \in 1 .. Len(s.results) |->
                          interfaceExpr(s.results[i], tup[i])]) >>,
              FALSE)

\* the texts of es joined by ", " (lines 35-40)
RECURSIVE JoinFrom(_, _)
JoinFrom(es, i) ==
    IF i > Len(es) THEN ""
    ELSE (IF i > 1 THEN ", " ELSE "") \o CText(es[i]) \o JoinFrom(es, i + 1)

\* CDD.ReturnStmt.  A return line is Line("return", <its text>, <its expressions>).
ReturnStmt(s, resultT, tup) ==
    CASE Len(s.results) = 0 ->
            IF resultT = "void"
            THEN Emit(<< Line("return", "return;", <<>>) >>, FALSE)
            ELSE Emit(<< Line("goto", "end", <<>>) >>, TRUE)
      [] Len(s.results) = 1 ->
            LET retTyp == IF Len(tup) # 1 THEN "tuple" ELSE tup[1]
                e      == interfaceExpr(s.results[1], retTyp)
            IN  Emit(<< Line("return", "return " \o CText(e) \o ";", <<e>>) >>, FALSE)
      [] OTHER ->
            LET es == [i \in 1 .. Len(s.results) |-> interfaceExpr(s.results[i], tup[i])]
            IN  Emit(<< Line("return",
                             "return (" \o resultT \o "){" \o JoinFrom(es, 1) \o "};",
                             es) >>,
                     FALSE)

\* the closure updateEnd of Stmt and BlockStmt
updateEnd_Lost(end, e) == end

updateEnd(end, e) == IF e THEN TRUE ELSE end

\* the label suffix chosen by lines 462-468
BranchTarget(s) ==
    s.label \o "$" \o
        (CASE s.tok = "break"    -> "_break"
           [] s.tok = "continue" -> "_continue"
           [] OTHER              -> "")

NoEmit == Emit(<<>>, FALSE)

\* text written by the statement itself
Text(lines) == Emit(lines, FALSE)

\* what a writes followed by what b writes; end as updateEnd leaves it
Join(a, b) == Emit(a.text \o b.text, updateEnd(updateEnd(FALSE, a.end), b.end))

\* the label of a loop or switch, written when the statement is labelled
LabelLine(label, suffix) ==
    IF label # "" THEN << Line("label", label \o suffix, <<>>) >> ELSE <<>>

-----------------------------------------------------------------------------
(* Statements with clauses                                                  *)

RangeS(x, xt, xlen, key, hasValue, value, tok, body) ==
    [k |-> "range", x |-> x, xt |-> xt, xlen |-> xlen, key |-> key,
     hasValue |-> hasValue, value |-> value, tok |-> tok, body |-> body]
\* a case clause: dflt means cs.List == nil
Clause(dflt, list, body) == [dflt |-> dflt, list |-> list, body |-> body]
SwitchS(init, hasTag, tag, clauses) ==
    [k |-> "switch", init |-> init, hasTag |-> hasTag, tag |-> tag, clauses |-> clauses]

\* cdd.varDecl(w, typ, false, name, e): a local of type typ initialised with e
varDecl(typ, name, e) ==
    << [k |-> "init", t |-> typ, n |-> name, r |-> Expr(e, typ)] >>

RECURSIVE StmtList(_, _, _, _)
\* for _, s := range body { updateEnd(cdd.Stmt(w, s, "", resultT, tup)) }
StmtList(list, i, resultT, tup) ==
    IF i > Len(list) THEN NoEmit
    ELSE Join(Stmt(list[i], "", resultT, tup), StmtList(list, i + 1, resultT, tup))

\* lines 428-435: a trailing fallthrough suppresses the break and is cut off
EndsInFallthrough(body) ==
    /\ Len(body) >= 1
    /\ body[Len(body)].k = "branch"
    /\ body[Len(body)].tok = "fallthrough"

\* lines 415-424: the test of a clause; none when cs.List is nil
CaseTest(cs, typ) ==
    IF ~cs.dflt
    THEN << Line("if", "",
                 [i \in 1 .. Len(cs.list) |->
                     eq([k |-> "name", n |-> "tag"], "==", ExprStr(cs.list[i], typ),
                        typ, typ)]) >>
    ELSE <<>>

\* the statements of a clause body without a trailing fallthrough
CaseBody(body) ==
    IF EndsInFallthrough(body) THEN SubSeq(body, 1, Len(body) - 1) ELSE body

\* lines 411-448 for one clause
CaseClause(cs, typ, resultT, tup) ==
    Join(Text(CaseTest(cs, typ) \o << Line("{", "", <<>>) >>),
         Join(StmtList(CaseBody(cs.body), 1, resultT, tup),
              Text((IF EndsInFallthrough(cs.body) THEN <<>>
                    ELSE << Line("break", "", <<>>) >>)
                   \o << Line("}", "", <<>>) >>)))

RECURSIVE CaseClauses(_, _, _, _, _)
CaseClauses(cl, i, typ, resultT, tup) ==
    IF i > Len(cl) THEN NoEmit
    ELSE Join(CaseClause(cl[i], typ, resultT, tup),
              CaseClauses(cl, i + 1, typ, resultT, tup))

\* lines 402-409: the type of the tag and the declaration of tag
TagType(s) == IF s.hasTag THEN exprType(s.tag) ELSE "bool"

TagDecl(s) ==
    IF s.hasTag THEN varDecl(exprType(s.tag), "tag", s.tag)
    ELSE << [k |-> "init", t |-> "bool", n |-> "tag", r |-> [k |-> "name", n |-> "true"]] >>

\* CDD.Stmt, case *ast.SwitchStmt
SwitchStmt(s, label, resultT, tup) ==
    Join(Text(<< Line("switch0", "", <<>>) >>),
         Join(IF s.init.k # "none" THEN Stmt(s.init, "", resultT, tup) ELSE NoEmit,
              Join(Text(TagDecl(s)),
                   Join(CaseClauses(s.clauses, 1, TagType(s), resultT, tup),
                        Text(<< Line("end0", "", <<>>) >> \o LabelLine(label, "_break"))))))

\* lines 292-305: array, hasValue
RangeArray(s) == s.xt \in {"array", "ptr"}

RangeHasValue(s) == s.hasValue /\ ~(s.value.k = "ident" /\ s.value.n = "_")

\* lines 307-316: xs and the declaration of x
RangeXs(s) == IF s.x.k = "ident" THEN NameStr(s.x.n, s.x.o) ELSE "x"

RangeDecl(s) ==
    IF s.x.k # "ident" /\ (RangeHasValue(s) \/ ~RangeArray(s))
    THEN varDecl(s.xt, "x", s.x) ELSE <<>>

\* lines 296-300, 318-320: xl
RangeLen(s) == IF RangeArray(s) THEN ToString(s.xlen) ELSE "len(" \o RangeXs(s) \o ")"

\* lines 326-338 with ks the text of the key
RangeHead(s, label, ks) ==
    << [k |-> "asg",
        l |-> IF s.tok = ":=" THEN [k |-> "vardecl", t |-> "int", n |-> ks.n] ELSE ks,
        op |-> " = ", r |-> [k |-> "lit", v |-> 0]] >>
    \o LabelLine(label, "_continue")
    \o << Line("for", RangeLen(s), <<ks>>) >>

\* lines 340-365
RangeValue(s) ==
    IF RangeHasValue(s)
    THEN << Line("{", "", <<>>),
            [k |-> "asg",
             l |-> IF s.tok = ":="
                   THEN [k |-> "vardecl", t |-> "int", n |-> ExprStr(s.value, "").n]
                   ELSE Expr(s.value, ""),
             op |-> " = ",
             r |-> [k |-> "elem", xs |-> RangeXs(s), idx |-> Expr(s.key, "")]] >>
    ELSE <<>>

\* lines 322-369
RangeLoop(s, label) ==
    IF s.xt \in {"slice", "array", "ptr"}
    THEN RangeHead(s, label, ExprStr(s.key, "")) \o RangeValue(s)
    ELSE << Line("notImplemented", "range", <<>>) >>

\* CDD.Stmt, case *ast.RangeStmt
RangeStmt(s, label, resultT, tup) ==
    Join(Text(<< Line("{", "", <<>>) >> \o RangeDecl(s) \o RangeLoop(s, label)),
         Join(BlockStmt(s.body, resultT, tup),
              Text((IF RangeHasValue(s) THEN << Line("}", "", <<>>) >> ELSE <<>>)
                   \o << Line("}", "", <<>>) >>
                   \o LabelLine(label, "_break"))))

\* a communication clause of select.  comm is
\*   [k |-> "none"]                     default
\*   [k |-> "send", ch, val]            ch <- val
\*   [k |-> "recv", ch, lhs, tok, uid]  lhs... tok <-ch  (no lhs: the bare <-ch)
CommClause(comm, body) == [comm |-> comm, body |-> body]
NoComm == [k |-> "none"]
SendComm(ch, val) == [k |-> "send", ch |-> ch, val |-> val]
RecvComm(ch, lhs, tok, uid) == [k |-> "recv", ch |-> ch, lhs |-> lhs, tok |-> tok, uid |-> uid]
SelectS(clauses) == [k |-> "select", clauses |-> clauses]
\* ch <- val as a statement
SendS(ch, val) == [k |-> "send", ch |-> ch, val |-> val]

\* a channel variable with elements of type et
ChanOf(n, et) == [k |-> "ident", n |-> n, o |-> "local", t |-> "chan", et |-> et]

\* cdd.exprType(s.Chan).(*types.Chan).Elem()
ChanElem(ch) == IF "et" \in DOMAIN ch THEN ch.et ELSE "int"

\* a call into the runtime: m(i, e...) with its result stored to dst, if any
Macro(m, i, dst, e) == [k |-> "macro", m |-> m, i |-> i, dst |-> dst, e |-> e]

\* the name of clause p (p counts from 1, the emitted index from 0)
CaseLabel(cl, p) == IF cl[p].comm.k = "none" THEN "dflt" ELSE "case" \o ToString(p - 1)

\* lines 491-502
HasDflt(cl) == \E p \in 1 .. Len(cl) : cl[p].comm.k = "none"

\* lines 505-540
RECURSIVE CommInits(_, _)
CommInits(cl, p) ==
    IF p > Len(cl) THEN <<>>
    ELSE (CASE cl[p].comm.k = "send" ->
                  << Macro("SENDINIT", p - 1, "",
                           << Expr(cl[p].comm.ch, ""),
                              Expr(cl[p].comm.val, ChanElem(cl[p].comm.ch)) >>) >>
            [] cl[p].comm.k = "recv" ->
                  << Macro("RECVINIT", p - 1, "", << Expr(cl[p].comm.ch, "") >>) >>
            [] OTHER -> <<>>)
         \o CommInits(cl, p + 1)

\* a separator rule that puts a comma after every entry
Comma_Always(n) == TRUE

\* line 566, after n--
Comma(n) == n > 0

\* lines 552-570; n is the number of entries not yet written
RECURSIVE CommList(_, _, _)
CommList(cl, p, n) ==
    IF p > Len(cl) THEN <<>>
    ELSE IF cl[p].comm.k = "none" THEN CommList(cl, p + 1, n)
    ELSE << [k |-> "comm",
             m |-> IF cl[p].comm.k = "send" THEN "SENDCOMM" ELSE "RECVCOMM",
             i |-> p - 1, comma |-> Comma(n - 1)] >>
         \o CommList(cl, p + 1, n - 1)

\* the destination written in front of " = ": a declaration for :=
RecvDst(name, tok, typ) == IF tok = ":=" THEN typ \o " " \o name ELSE name

\* lines 587-645: the completion of the communication of clause p
CommDone(c, p) ==
    CASE c.k = "none" -> <<>>
      [] c.k = "send" -> << Macro("SELSEND", p - 1, "", <<>>) >>
      [] c.k = "recv" /\ Len(c.lhs) = 0 -> << Macro("SELRECV", p - 1, "", <<>>) >>
      [] c.k = "recv" /\ Len(c.lhs) = 1 ->
            LET name == CText(ExprStr(c.lhs[1], ""))
            IN  << Macro("SELRECV", p - 1,
                         IF name # "_$" THEN RecvDst(name, c.tok, "int") ELSE "", <<>>) >>
      [] OTHER ->
            LET name == CText(ExprStr(c.lhs[1], ""))
                ok   == CText(ExprStr(c.lhs[2], ""))
                tmp  == IF name # "_$" \/ ok # "_$" THEN TupTmp(c.uid) ELSE ""
            IN  << Macro("SELRECVOK", p - 1,
                         IF tmp # "" THEN "tuple " \o tmp ELSE "", <<>>) >>
                \o (IF name # "_$"
                    THEN << [k |-> "asg", l |-> [k |-> "name", n |-> RecvDst(name, c.tok, "int")],
                             op |-> " = ", r |-> [k |-> "field", x |-> tmp, f |-> 0]] >>
                    ELSE <<>>)
                \o (IF ok # "_$"
                    THEN << [k |-> "asg", l |-> [k |-> "name", n |-> RecvDst(ok, c.tok, "bool")],
                             op |-> " = ", r |-> [k |-> "field", x |-> tmp, f |-> 1]] >>
                    ELSE <<>>)

\* lines 575-655
RECURSIVE CommClauses(_, _, _, _)
CommClauses(cl, p, resultT, tup) ==
    IF p > Len(cl) THEN NoEmit
    ELSE Join(Text(<< Line("caselabel", CaseLabel(cl, p), <<>>) >>
                   \o CommDone(cl[p].comm, p)),
              Join(StmtList(cl[p].body, 1, resultT, tup),
                   Join(Text(<< Line("break", "", <<>>), Line("}", "", <<>>) >>),
                        CommClauses(cl, p + 1, resultT, tup))))

\* lines 543-549: the number of communications
CommCount(cl) == IF HasDflt(cl) THEN Len(cl) - 1 ELSE Len(cl)

\* CDD.Stmt, case *ast.SelectStmt
SelectStmt(s, label, resultT, tup) ==
    Join(Text(<< Line("switch0", "", <<>>),
                 Line("__label__", "",
                      [p \in 1 .. Len(s.clauses) |-> CaseLabel(s.clauses, p)]) >>
              \o CommInits(s.clauses, 1)
              \o << Line(IF HasDflt(s.clauses) THEN "NBSELECT" ELSE "SELECT", "", <<>>) >>
              \o CommList(s.clauses, 1, CommCount(s.clauses))
              \o << Line("endselect", "", <<>>) >>),
         Join(CommClauses(s.clauses, 1, resultT, tup),
              Text(<< Line("end0", "", <<>>) >>)))

-----------------------------------------------------------------------------
(* go statements                                                            *)

\* the callee of a call:
\*   [k |-> "ident", n, o, t]   a function (o = "pkg") or a variable holding one
\*   [k |-> "selector", x, sel, selKind, recvKind, isPtr]
\*        selKind "none" is a qualified identifier lib.F (no selection recorded)
\*   [k |-> "funclit", ...]     a function literal
Selector(x, sel, selKind, recvKind, isPtr) ==
    [k |-> "selector", x |-> x, sel |-> sel, selKind |-> selKind,
     recvKind |-> recvKind, isPtr |-> isPtr, xptr |-> isPtr, path |-> << >>]
\* a selection through embedded fields: xptr tells whether sel.Recv(), the
\* type of x, is a pointer; path lists the embedded fields passed on the way
\* (index[:len(index)-1]), each [n, ptr] with ptr telling whether the
\* field's type is a pointer; isPtr is rt after the loop
SelectorPath(x, xptr, path, sel, selKind, recvKind) ==
    [k |-> "selector", x |-> x, sel |-> sel, selKind |-> selKind,
     recvKind |-> recvKind, xptr |-> xptr, path |-> path,
     isPtr |-> IF Len(path) = 0 THEN xptr ELSE path[Len(path)].ptr]

RECURSIVE PathFrom_Dots(_, _, _, _)
PathFrom_Dots(s, ptr, path, i) ==
    IF i > Len(path) THEN s
    ELSE PathFrom_Dots(s \o "." \o path[i].n, path[i].ptr, path, i + 1)

\* lines 976-986: s after the embedded fields from position i on, with ptr
\* telling whether rt is a pointer
RECURSIVE PathFrom(_, _, _, _)
PathFrom(s, ptr, path, i) ==
    IF i > Len(path) THEN s
    ELSE PathFrom(s \o (IF ptr THEN "->" ELSE ".") \o path[i].n, path[i].ptr, path, i + 1)
GoS(fun, args, params) == [k |-> "go", fun |-> fun, args |-> args, params |-> params]

\* CDD.SelectorExpr: the text written and (fun, recvt, recvs); "" stands for
\* a nil type
SelectorExpr(e) ==
    LET s   == PathFrom(CText(ExprStr(e.x, "")), e.xptr, e.path, 1)
        rt  == IF e.isPtr THEN "ptr" ELSE e.recvKind
    IN  CASE e.selKind = "none" ->
                [w |-> Name(e.sel, "lib"), fun |-> "", recvt |-> "", recvs |-> ""]
          [] e.selKind = "FieldVal" ->
                [w |-> s \o (IF e.isPtr THEN "->" ELSE ".") \o e.sel,
                 fun |-> "", recvt |-> "", recvs |-> ""]
          [] e.selKind = "MethodVal" /\ e.recvKind = "iface" ->
                [w |-> e.sel, fun |-> "func", recvt |-> "iface", recvs |-> s]
          [] e.selKind = "MethodVal" /\ e.recvKind = "ptr" ->
                [w |-> Name(e.sel, "pkg"), fun |-> "func", recvt |-> "ptr",
                 recvs |-> IF e.isPtr THEN s ELSE "&" \o s]
          [] e.selKind = "MethodVal" ->
                [w |-> Name(e.sel, "pkg"), fun |-> "func", recvt |-> "struct",
                 recvs |-> IF e.isPtr THEN "*" \o s ELSE s]
          [] OTHER ->
                [w |-> Name(e.sel, "pkg"), fun |-> "", recvt |-> "", recvs |-> ""]

\* what funStr returns
Fun(fs, ft, rs, rt) == [fs |-> fs, ft |-> ft, rs |-> rs, rt |-> rt]

\* lines 1139-1143 with r the result of SelectorExpr
funStrSel(r) == Fun([k |-> "name", n |-> r.w], r.fun, r.recvs, r.recvt)

\* CDD.funStr (builtins left out): fs, ft, rs, rt
funStr(fe) ==
    CASE fe.k = "selector" -> funStrSel(SelectorExpr(fe))
      [] fe.k = "ident" -> Fun([k |-> "name", n |-> NameStr(fe.n, fe.o)], fe.t, "", "")
      [] OTHER -> Fun(ExprStr(fe, ""), exprType(fe), "", "")

\* lines 1164-1216 with r the result of funStr
\*   [k |-> "icall", recv, tmp, fun, box, args]
\*        recv.fun(recv.box, args...) for tmp = FALSE,
\*        ({T r = recv; r.fun(r.box, args...);}) for tmp = TRUE
\*   [k |-> "callx", f, recv, args]   f(recv, args...) (no recv when "")
CallExprOf(e, r) ==
    IF r.rt # "" /\ IsInterface(r.rt)
    THEN [k |-> "icall", recv |-> r.rs, tmp |-> (e.fun.x.k # "ident"),
          fun |-> r.fs, box |-> ".val$",
          args |-> [i \in 1 .. Len(e.args) |->
                       interfaceExpr(e.args[i],
                                     IF i <= Len(e.params) THEN e.params[i] ELSE "")]]
    ELSE [k |-> "callx", f |-> r.fs, recv |-> r.rs,
          args |-> [i \in 1 .. Len(e.args) |->
                       interfaceExpr(e.args[i],
                                     IF i <= Len(e.params) THEN e.params[i] ELSE "")]]

\* CDD.CallExpr for a callee of function type (conversions are left out)
CallExpr(e) == CallExprOf(e, funStr(e.fun))

Arg(l, r, t) == [l |-> l, r |-> r, t |-> t]

\* lines 676-689 with r the result of funStr: the callee as an argument;
\* t = "" when it is called by name.  An identifier that is no local variable
\* denotes a function.
GoCalleeOf(fe, r) ==
    IF r.rt = ""
    THEN (IF fe.k = "ident" /\ fe.o # "local"
          THEN Arg(r.fs.n, "", "")
          ELSE Arg("_f", r.fs, r.ft))
    ELSE Arg(r.fs.n, "", "")

GoCallee(fe) == GoCalleeOf(fe, funStr(fe))

\* lines 705-722 with r the result of funStr and f the callee
GoArgvOf(s, r, f) ==
    (IF f.t # "" THEN << f >> ELSE <<>>)
    \o (IF r.rt # "" THEN << Arg("_r", [k |-> "name", n |-> r.rs], r.rt) >> ELSE <<>>)
    \o [i \in 1 .. Len(s.args) |->
           Arg("_" \o ToString(i - 1), ExprStr(s.args[i], s.params[i]),
               exprType(s.args[i]))]

GoArgv(s) == GoArgvOf(s, funStr(s.fun), GoCallee(s.fun))

\* the l of every argument
ArgNames(argv) == [i \in 1 .. Len(argv) |-> argv[i].l]

\* lines 699-777 with f the callee and argv the arguments
GoLines(f, argv) ==
    IF Len(argv) = 0
    THEN << Line("GO", f.l, <<>>) >>
    ELSE << Line("{", "", <<>>),
            [k |-> "wrapdef", params |-> ArgNames(argv)],
            Line("goready", "", <<>>),
            [k |-> "callstmt", f |-> f.l,
             args |-> ArgNames(IF f.t # "" THEN Tail(argv) ELSE argv)],
            Line("}", "", <<>>) >>
         \o [i \in 1 .. Len(argv) |->
                [k |-> "init", t |-> argv[i].t, n |-> argv[i].l, r |-> argv[i].r]]
         \o << [k |-> "GOWAIT", args |-> ArgNames(argv)],
               Line("}", "", <<>>) >>

\* CDD.GoStmt
GoStmt(s) == GoLines(GoCallee(s.fun), GoArgv(s))

\* lines 199-223
IfStmt(s, resultT, tup) ==
    Join(IF s.init.k # "none"
         THEN Join(Text(<< Line("{", "", <<>>) >>), Stmt(s.init, "", resultT, tup))
         ELSE NoEmit,
         Join(Text(<< Line("if", "", << Expr(s.cond, "") >>) >>),
              Join(BlockStmt(s.body, resultT, tup),
                   Join(IF s.els.k # "none"
                        THEN Join(Text(<< Line("else", "", <<>>) >>),
                                  Stmt(s.els, "", resultT, tup))
                        ELSE NoEmit,
                        Text(IF s.init.k # "none" THEN << Line("}", "", <<>>) >>
                             ELSE <<>>)))))

\* lines 235-283
ForStmt(s, label, resultT, tup) ==
    Join(IF s.init.k # "none"
         THEN Join(Text(<< Line("{", "", <<>>) >>), Stmt(s.init, "", resultT, tup))
         ELSE NoEmit,
         Join(Text((IF s.post.k = "none" THEN LabelLine(label, "_continue") ELSE <<>>)
                   \o << Line("while", "",
                              << IF s.hasCond THEN Expr(s.cond, "")
                                 ELSE [k |-> "name", n |-> "true"] >>) >>
                   \o (IF s.post.k # "none" THEN << Line("{", "", <<>>) >> ELSE <<>>)),
              Join(BlockStmt(s.body, resultT, tup),
                   Join(IF s.post.k # "none"
                        THEN Join(Text(LabelLine(label, "_continue")),
                                  Join(Stmt(s.post, "", resultT, tup),
                                       Text(<< Line("}", "", <<>>) >>)))
                        ELSE NoEmit,
                        Text((IF s.init.k # "none" THEN << Line("}", "", <<>>) >>
                              ELSE <<>>)
                             \o LabelLine(label, "_break"))))))

\* CDD.Stmt (indentation and the complexity counter are left out)
Stmt(s, label, resultT, tup) ==
    CASE s.k = "assign" -> Text(AssignStmt(s.a, s.uid))
      [] s.k = "expr"   -> Text(<< Line("expr", "", << Expr(s.x, "") >>) >>)
      [] s.k = "if"     -> IfStmt(s, resultT, tup)
      [] s.k = "incdec" -> Text(<< Line("incdec", s.tok, << Expr(s.x, "") >>) >>)
      [] s.k = "block"  -> BlockStmt(s.list, resultT, tup)
      [] s.k = "for"    -> ForStmt(s, label, resultT, tup)
      [] s.k = "return" -> Join(NoEmit, ReturnStmt(s, resultT, tup))
      [] s.k = "branch" ->
            IF s.label = ""
            THEN Text(<< Line(s.tok, "", <<>>) >>)
            ELSE Text(<< Line("goto", BranchTarget(s), <<>>) >>)
      [] s.k = "range"  -> RangeStmt(s, label, resultT, tup)
      [] s.k = "switch" -> SwitchStmt(s, label, resultT, tup)
      [] s.k = "select" -> SelectStmt(s, label, resultT, tup)
      [] s.k = "go"     -> Text(GoStmt(s))
      [] s.k = "send"   ->
            Text(<< Line("SEND", ChanElem(s.ch),
                         << Expr(s.ch, ""), Expr(s.val, ChanElem(s.ch)) >>) >>)
      [] OTHER -> Text(<< Line("notImplemented", s.k, <<>>) >>)

\* lines 790-800: a labelled statement gets its label line and passes the
\* label on
BlockItem(s, resultT, tup) ==
    Join(Text(IF s.k = "labeled" THEN << Line("label", s.label \o "$", <<>>) >> ELSE <<>>),
         Stmt(IF s.k = "labeled" THEN s.stmt ELSE s,
              IF s.k = "labeled" THEN s.label \o "$" ELSE "",
              resultT, tup))

\* the loop of BlockStmt over bs.List, from statement i on
BlockList(list, i, resultT, tup) ==
    IF i > Len(list) THEN NoEmit
    ELSE Join(BlockItem(list[i], resultT, tup), BlockList(list, i + 1, resultT, tup))

\* CDD.BlockStmt
BlockStmt(list, resultT, tup) ==
    Join(Text(<< Line("{", "", <<>>) >>),
         Join(BlockList(list, 1, resultT, tup), Text(<< Line("}", "", <<>>) >>)))

-----------------------------------------------------------------------------
(* Scenario "body": a function body is translated by BlockStmt against the  *)
(* function's result type; out is the text written, flag the value returned. *)

Body(list, resultT, tup) == [body |-> list, resultT |-> resultT, tup |-> tup]

\* w and end after the translator returned r
Written(r) ==
    /\ out' = r.text
    /\ flag' = r.end

TranslateBody ==
    /\ scen = "body"
    /\ pc = 0
    /\ Written(BlockStmt(input.body, input.resultT, input.tup))
    /\ pc' = 1
    /\ UNCHANGED <<scen, input, st, trace>>

BodyStart ==
    /\ scen = "body"
    /\ out = <<>>
    /\ flag = FALSE
    /\ pc = 0
    /\ st = <<>>
    /\ trace = <<>>

Translated == scen = "body" /\ pc = 1

-----------------------------------------------------------------------------
(* Return statements                                                        *)

MaxResults == 3

ResultTypes == {"int", "slice", "chan", "ptr"}

\* expressions assignable to a result of type t
ResultExprs(t) ==
    IF t = "int" THEN {Ident("a"), Const(-1)} ELSE {NilLit, TIdent("s", t)}

\* the C result type of a function with results tup: void, the type itself,
\* the tuple struct
ResultT(tup) ==
    CASE Len(tup) = 0 -> "void"
      [] Len(tup) = 1 -> tup[1]
      [] OTHER        -> "pkg$f$out"

\* return; / return e1, ..., en / return g() in a function with results tup
InitReturn ==
    /\ BodyStart
    /\ \E n \in 0 .. MaxResults :
          \E tup \in [1 .. n -> ResultTypes] :
             \E rs \in [1 .. n -> UNION {ResultExprs(ty) : ty \in ResultTypes}]
                       \cup {<<>>} \cup {<<Call("g")>>} :
                /\ \/ rs = <<>>
                   \/ Len(rs) = n /\ \A i \in 1 .. n : rs[i] \in ResultExprs(tup[i])
                   \/ rs = <<Call("g")>> /\ n >= 2
                /\ input = Body(<<ReturnS(rs)>>, ResultT(tup), tup)

SpecReturn == InitReturn /\ [][TranslateBody]_vars

\* the text of a result expression of type t, spelled out
ResultText(e, t) ==
    CASE e = NilLit /\ t = "slice" -> "NILSLICE"
      [] e = NilLit /\ t = "chan"  -> "NILCHAN"
      [] e = NilLit /\ t = "ptr"   -> "nil"
      [] e = Const(-1)             -> "(-1)"
      [] e = Call("g")             -> "g$()"
      [] OTHER                     -> e.n \o "$"

RECURSIVE ResultList(_, _, _)
ResultList(rs, tup, i) ==
    IF i > Len(rs) THEN ""
    ELSE IF i = Len(rs) THEN ResultText(rs[i], tup[i])
    ELSE ResultText(rs[i], tup[i]) \o ", " \o ResultList(rs, tup, i + 1)

\* C4: the line ReturnStmt writes is determined by the number of results and
\* the result type: `return;` for none in a void function, `goto end;` for
\* none in a function with results, `return e;` for one, and
\* `return (R){e1, ..., en};` for n >= 2 with R the tuple struct name and ei
\* translated against the type of result i, in source order.
C4_ReturnForms ==
    (Translated /\ input.body[1].k = "return") =>
        LET rs  == input.body[1].results
            n   == Len(rs)
            ln  == out[2]
        IN  /\ Len(out) = 3
            /\ n = 0 /\ input.resultT = "void" =>
                  ln.k = "return" /\ ln.lab = "return;"
            /\ n = 0 /\ input.resultT # "void" =>
                  ln.k = "goto" /\ ln.lab = "end"
            /\ n = 1 =>
                  /\ ln.k = "return"
                  /\ ln.lab = "return " \o ResultText(rs[1], input.resultT) \o ";"
            /\ n >= 2 =>
                  /\ ln.k = "return"
                  /\ ln.lab = "return (" \o input.resultT \o "){"
                                \o ResultList(rs, input.tup, 1) \o "};"

\* S2 with a nil result: return a, nil in a function returning (int, slice)
C4_Witness ==
    /\ Translated
    /\ input.body = <<ReturnS(<<Ident("a"), NilLit>>)>>
    /\ input.tup = <<"int", "slice">>
    /\ out[2].lab = "return (pkg$f$out){a$, NILSLICE};"

-----------------------------------------------------------------------------
(* The end flag on nested statements                                        *)

MaxDepth == 2

\* a function literal with a named result and a bare return of its own
ClosureStmt == ExprS(FuncLit("int", <<"int">>, <<ReturnS(<<>>)>>))

Leaves ==
    {ReturnS(<<>>), ReturnS(<<Ident("a")>>), ExprS(Call("g")), BranchS("break", ""),
     ClosureStmt}

\* the statements that hold c one level down
Wrappers(c) ==
    {IfS(NoStmt, Ident("c"), <<c>>, NoStmt),
     IfS(NoStmt, Ident("c"), <<ExprS(Call("g"))>>, BlockS(<<c>>)),
     IfS(NoStmt, Ident("c"), <<>>, IfS(NoStmt, Ident("d"), <<c>>, NoStmt)),
     ForS(NoStmt, TRUE, Ident("c"), NoStmt, <<c>>),
     ForS(NoStmt, FALSE, Ident("c"), IncDecS("++", Ident("i")), <<c>>),
     RangeS(TIdent("s", "slice"), "slice", 0, Ident("k"), FALSE, NoStmt, ":=", <<c>>),
     SwitchS(NoStmt, TRUE, Ident("x"), <<Clause(FALSE, <<Const(1)>>, <<c>>)>>),
     SwitchS(NoStmt, TRUE, Ident("x"),
             <<Clause(FALSE, <<Const(1)>>, <<ExprS(Call("g"))>>), Clause(TRUE, <<>>, <<c>>)>>),
     SelectS(<<CommClause(RecvComm(TIdent("ch", "chan"), <<>>, "=", 0), <<c>>)>>),
     SelectS(<<CommClause(NoComm, <<c>>)>>),
     BlockS(<<c>>),
     BlockS(<<LabeledS("L", c)>>),
     BlockS(<<c, ExprS(Call("g"))>>),
     BlockS(<<ExprS(Call("g")), c>>)}

RECURSIVE Trees(_)
Trees(d) ==
    IF d = 0 THEN Leaves
    ELSE LET T == Trees(d - 1) IN T \cup UNION {Wrappers(c) : c \in T}

\* the body holds one statement tree; the function is void or has one named
\* int result
InitEnd ==
    /\ BodyStart
    /\ \E s \in Trees(MaxDepth), tup \in {<<>>, <<"int">>} :
          input = Body(<<s>>, ResultT(tup), tup)

SpecEnd == InitEnd /\ [][TranslateBody]_vars

\* a `goto end;` among the statements of text.  The definition a function
\* literal is hoisted to is an operand of its statement; its own jump to end
\* belongs to the literal's body and is answered by the literal's flag.
HasGotoEnd(text) ==
    \E i \in 1 .. Len(text) : text[i].k = "goto" /\ text[i].lab = "end"

\* a `goto end;` anywhere in text, the definitions of function literals included
RECURSIVE HasGotoEndAnywhere(_)
HasGotoEndAnywhere(text) ==
    \E i \in 1 .. Len(text) :
        \/ text[i].k = "goto" /\ text[i].lab = "end"
        \/ /\ text[i].k = "expr"
           /\ text[i].e[1].k = "closure"
           /\ HasGotoEndAnywhere(FuncDecl(text[i].e[1].fd))

\* C5 as stated: the flag is true exactly when the emitted text holds a
\* `goto end;` anywhere.
C5_EndFlagAnyText ==
    Translated => (flag <=> HasGotoEndAnywhere(out))

\* C5: the flag BlockStmt returns for a body is true exactly when the text
\* emitted for the body's statements, at any depth through if, else, for,
\* range, switch, select, labelled and block statements but outside the
\* definitions of function literals, holds a `goto end;`.
C5_EndFlag ==
    Translated => (flag <=> HasGotoEnd(out))

\* a bare return two levels down, in a select clause inside a loop
C5_Witness ==
    /\ Translated
    /\ input.body[1].k = "for"
    /\ input.body[1].body[1].k = "select"
    /\ input.resultT = "int"
    /\ flag
    /\ HasGotoEnd(out)

-----------------------------------------------------------------------------
(* Scenario "switch": an expression switch over the int variable x is       *)
(* translated and the emitted C runs.  The body of clause p calls bp, so    *)
(* trace lists the clause bodies that ran; st.evals counts the evaluations  *)
(* of the tag expression.                                                   *)

MaxClauses == 3

BodyCall(p) == ExprS(Call("b" \o ToString(p)))

\* clause p: default or `case p:` / `case p, 0:`; ft adds a trailing fallthrough
SwitchClause(p, dflt, two, ft) ==
    Clause(dflt,
           IF dflt THEN <<>> ELSE IF two THEN <<Const(p), Const(0)>> ELSE <<Const(p)>>,
           IF ft THEN <<BodyCall(p), BranchS("fallthrough", "")>> ELSE <<BodyCall(p)>>)

\* n clauses, at most one default (d = 0: none), fallthrough never in the
\* last clause, only the first case clause may list two values
InitSwitch ==
    /\ scen = "switch"
    /\ \E n \in 1 .. MaxClauses :
          \E d \in 0 .. n, F \in SUBSET (1 .. (n - 1)), two \in BOOLEAN,
             x \in 0 .. (n + 1) :
             input = [s |-> SwitchS(NoStmt, TRUE, Ident("x"),
                                    [p \in 1 .. n |->
                                        SwitchClause(p, p = d, two /\ p = 1, p \in F)]),
                      x |-> x]
    /\ out = <<>>
    /\ flag = FALSE
    /\ pc = 0
    /\ st = [vars |-> ("x$" :> input.x), evals |-> 0]
    /\ trace = <<>>

TranslateSwitch ==
    /\ scen = "switch"
    /\ pc = 0
    /\ Written(Stmt(input.s, "", "void", <<>>))
    /\ pc' = 1
    /\ UNCHANGED <<scen, input, st, trace>>

\* the line holding the brace that closes the block opened at or after line i
RECURSIVE CloseOf(_, _, _)
CloseOf(text, i, d) ==
    CASE text[i].k = "{" -> CloseOf(text, i + 1, d + 1)
      [] text[i].k = "}" -> IF d = 1 THEN i ELSE CloseOf(text, i + 1, d - 1)
      [] OTHER -> CloseOf(text, i + 1, d)

\* the line of the }} that ends the switch(0) around line i
RECURSIVE EndOf(_, _)
EndOf(text, i) == IF text[i].k = "end0" THEN i ELSE EndOf(text, i + 1)

\* the value of a test written by eq
Holds(c, m) == c.k = "cmp" /\ c.op = "==" /\ Eval(c.l, m) = Eval(c.r, m)

\* one line of the emitted switch runs
ExecSwitch ==
    /\ scen = "switch"
    /\ pc >= 1
    /\ pc <= Len(out)
    /\ LET c == out[pc]
       IN  CASE c.k = "init" ->
                   /\ st' = [st EXCEPT !.vars = (c.n :> Eval(c.r, st)) @@ st.vars,
                                       !.evals = st.evals + 1]
                   /\ pc' = pc + 1
                   /\ trace' = trace
             [] c.k = "if" ->
                   /\ pc' = IF \E i \in 1 .. Len(c.e) : Holds(c.e[i], st)
                            THEN pc + 1
                            ELSE CloseOf(out, pc + 1, 0) + 1
                   /\ UNCHANGED <<st, trace>>
             [] c.k = "expr" ->
                   /\ trace' = Append(trace, c.e[1].f)
                   /\ pc' = pc + 1
                   /\ st' = st
             [] c.k = "break" ->
                   /\ pc' = EndOf(out, pc) + 1
                   /\ UNCHANGED <<st, trace>>
             [] OTHER ->
                   /\ pc' = pc + 1
                   /\ UNCHANGED <<st, trace>>
    /\ UNCHANGED <<scen, input, out, flag>>

NextSwitch == TranslateSwitch \/ ExecSwitch

SpecSwitch == InitSwitch /\ [][NextSwitch]_vars

SwitchDone == scen = "switch" /\ pc = Len(out) + 1

\* The language definition: the clause an expression switch selects for tag
\* value x (0: none) and the bodies that run from it on.
GoSelected(cl, x) ==
    LET M == {p \in 1 .. Len(cl) :
                 ~cl[p].dflt /\ \E i \in 1 .. Len(cl[p].list) : cl[p].list[i].v = x}
        D == {p \in 1 .. Len(cl) : cl[p].dflt}
    IN  IF M # {} THEN CHOOSE p \in M : \A q \in M : p <= q
        ELSE IF D # {} THEN CHOOSE p \in D : TRUE
        ELSE 0

RECURSIVE GoRun(_, _)
GoRun(cl, p) ==
    IF p = 0 \/ p > Len(cl) THEN <<>>
    ELSE << "b" \o ToString(p) \o "$" >>
         \o (IF EndsInFallthrough(cl[p].body) THEN GoRun(cl, p + 1) ELSE <<>>)

NoFallthrough(cl) == \A p \in 1 .. Len(cl) : ~EndsInFallthrough(cl[p].body)

\* C6: the tag is evaluated once and exactly the selected clause runs: the
\* first clause with a case equal to the tag, the default clause only when no
\* case of any clause equals the tag, wherever the default clause stands.
C6_ClauseSelection ==
    (SwitchDone /\ NoFallthrough(input.s.clauses)) =>
        /\ st.evals = 1
        /\ trace = GoRun(input.s.clauses, GoSelected(input.s.clauses, input.x))

\* C7: when the body of clause i ends with fallthrough and has run, the body
\* of clause i+1 runs next, whatever the cases of clause i+1 are.
C7_Fallthrough ==
    SwitchDone =>
        \A i \in 1 .. Len(trace) :
            \A p \in 1 .. Len(input.s.clauses) :
                (trace[i] = "b" \o ToString(p) \o "$"
                    /\ EndsInFallthrough(input.s.clauses[p].body)) =>
                    /\ i < Len(trace)
                    /\ trace[i + 1] = "b" \o ToString(p + 1) \o "$"

-----------------------------------------------------------------------------
(* Select statements                                                        *)

MaxComm == 3

CommKinds == {"dflt", "send", "recv0", "recv1", "recv1def", "recv2def", "recv2blank"}

Chan(p) == TIdent("c" \o ToString(p), "chan")

\* the communication of kind kd in clause p
CommOf(kd, p) ==
    CASE kd = "dflt"     -> NoComm
      [] kd = "send"     -> SendComm(Chan(p), Ident("v"))
      [] kd = "recv0"    -> RecvComm(Chan(p), <<>>, "=", p)
      [] kd = "recv1"    -> RecvComm(Chan(p), <<Ident("v")>>, "=", p)
      [] kd = "recv1def" -> RecvComm(Chan(p), <<Ident("w")>>, ":=", p)
      [] kd = "recv2def" -> RecvComm(Chan(p), <<Ident("w"), Ident("ok")>>, ":=", p)
      [] kd = "recv2blank" -> RecvComm(Chan(p), <<BlankDef, BlankDef>>, ":=", p)

\* a select of n clauses with at most one default; the body of clause p calls bp
InitSelect ==
    /\ BodyStart
    /\ \E n \in 1 .. MaxComm :
          \E kd \in [1 .. n -> CommKinds] :
             /\ Cardinality({p \in 1 .. n : kd[p] = "dflt"}) <= 1
             /\ input = Body(<<SelectS([p \in 1 .. n |->
                                          CommClause(CommOf(kd[p], p), <<BodyCall(p)>>)])>>,
                             "void", <<>>)

SpecSelect == InitSelect /\ [][TranslateBody]_vars

\* what a line of the protocol does: [m, i, c]
Ev(m, i, c) == [m |-> m, i |-> i, c |-> c]

IsProtocol(l) ==
    \/ l.k \in {"SELECT", "NBSELECT", "comm", "caselabel", "break", "expr"}
    \/ l.k = "macro"

EventOf(l) ==
    CASE l.k = "macro"     -> Ev(l.m, l.i, FALSE)
      [] l.k = "comm"      -> Ev(l.m, l.i, l.comma)
      [] l.k = "caselabel" -> Ev(l.lab, -1, FALSE)
      [] l.k = "expr"      -> Ev(l.e[1].f, -1, FALSE)
      [] OTHER             -> Ev(l.k, -1, FALSE)

Events(text) ==
    LET ls == SelectSeq(text, IsProtocol)
    IN  [j \in 1 .. Len(ls) |-> EventOf(ls[j])]

\* the protocol the clauses cl call for
RECURSIVE Phase1(_, _)
Phase1(cl, p) ==
    IF p > Len(cl) THEN <<>>
    ELSE (CASE cl[p].comm.k = "none" -> <<>>
            [] cl[p].comm.k = "send" -> << Ev("SENDINIT", p - 1, FALSE) >>
            [] OTHER                 -> << Ev("RECVINIT", p - 1, FALSE) >>)
         \o Phase1(cl, p + 1)

LastComm(cl) ==
    LET N == {p \in 1 .. Len(cl) : cl[p].comm.k # "none"}
    IN  IF N = {} THEN 0 ELSE CHOOSE p \in N : \A q \in N : q <= p

RECURSIVE Phase2(_, _)
Phase2(cl, p) ==
    IF p > Len(cl) THEN <<>>
    ELSE (CASE cl[p].comm.k = "none" -> <<>>
            [] cl[p].comm.k = "send" -> << Ev("SENDCOMM", p - 1, p # LastComm(cl)) >>
            [] OTHER                 -> << Ev("RECVCOMM", p - 1, p # LastComm(cl)) >>)
         \o Phase2(cl, p + 1)

RECURSIVE Phase3(_, _)
Phase3(cl, p) ==
    IF p > Len(cl) THEN <<>>
    ELSE (CASE cl[p].comm.k = "none" -> << Ev("dflt", -1, FALSE) >>
            [] cl[p].comm.k = "send" ->
                  << Ev("case" \o ToString(p - 1), -1, FALSE), Ev("SELSEND", p - 1, FALSE) >>
            [] cl[p].comm.k = "recv" /\ Len(cl[p].comm.lhs) = 2 ->
                  << Ev("case" \o ToString(p - 1), -1, FALSE), Ev("SELRECVOK", p - 1, FALSE) >>
            [] OTHER ->
                  << Ev("case" \o ToString(p - 1), -1, FALSE), Ev("SELRECV", p - 1, FALSE) >>)
         \o << Ev("b" \o ToString(p) \o "$", -1, FALSE), Ev("break", -1, FALSE) >>
         \o Phase3(cl, p + 1)

\* C8: the text of a select holds, in this order, one SENDINIT(i)/RECVINIT(i)
\* per non-default clause i, one NBSELECT (with a default clause) or SELECT
\* listing SENDCOMM(i)/RECVCOMM(i) of the non-default clauses in source order
\* with commas between them only, and per clause a block labelled case<i> or
\* dflt that completes the communication with SELSEND(i), SELRECV(i) or
\* SELRECVOK(i), runs the body and leaves the select.
C8_SelectProtocol ==
    (Translated /\ input.body[1].k = "select") =>
        LET cl == input.body[1].clauses
        IN  Events(out) =
                Phase1(cl, 1)
                \o << Ev(IF \E p \in 1 .. Len(cl) : cl[p].comm.k = "none"
                         THEN "NBSELECT" ELSE "SELECT", -1, FALSE) >>
                \o Phase2(cl, 1)
                \o Phase3(cl, 1)

\* select { case c1 <- v: ; default: ; case w, ok := <-c3: }
C8_Witness ==
    /\ Translated
    /\ input.body[1].k = "select"
    /\ Len(input.body[1].clauses) = 3
    /\ input.body[1].clauses[1].comm.k = "send"
    /\ input.body[1].clauses[2].comm.k = "none"
    /\ input.body[1].clauses[3].comm = CommOf("recv2def", 3)
    /\ \E j \in 1 .. Len(out) : out[j].k = "NBSELECT"
    /\ \E j \in 1 .. Len(out) : out[j] = Macro("SELRECVOK", 2, "tuple tmp3", <<>>)

-----------------------------------------------------------------------------
(* go statements                                                            *)

MaxArgs == 2

\* f (a function of the package), fv (a local variable holding a function),
\* lib.F (a function of an imported package), r.m (methods on interface,
\* pointer and value receivers), r.fn (a field holding a function), func(){}
GoCallees ==
    {[k |-> "ident", n |-> "f", o |-> "pkg", t |-> "func"],
     [k |-> "ident", n |-> "fv", o |-> "local", t |-> "func"],
     Selector(Ident("lib"), "F", "none", "", FALSE),
     Selector(TIdent("r", "iface"), "m", "MethodVal", "iface", FALSE),
     Selector(TIdent("r", "ptr"), "m", "MethodVal", "ptr", TRUE),
     Selector(TIdent("r", "struct"), "m", "MethodVal", "ptr", FALSE),
     Selector(TIdent("r", "ptr"), "m", "MethodVal", "val", TRUE),
     Selector(TIdent("r", "struct"), "m", "MethodVal", "val", FALSE),
     Selector(TIdent("r", "struct"), "fn", "FieldVal", "", FALSE),
     Selector(TIdent("r", "ptr"), "fn", "FieldVal", "", TRUE),
     FuncLit("void", <<>>, <<>>)}

GoArgs == {Ident("x"), Const(1), NilLit}

ParamOf(a) == IF a = NilLit THEN "slice" ELSE "int"

InitGo ==
    /\ BodyStart
    /\ \E fe \in GoCallees, n \in 0 .. MaxArgs :
          \E as \in [1 .. n -> GoArgs] :
             input = Body(<<GoS(fe, as, [i \in 1 .. n |-> ParamOf(as[i])])>>, "void", <<>>)

SpecGo == InitGo /\ [][TranslateBody]_vars

\* the C functions the translated program defines
DefinedFunctions == {Name("f", "pkg"), Name("F", "lib"), Name("m", "pkg")}

\* the locals a go statement needs: the function value when the callee is no
\* function or method called by name, the receiver of a method, the arguments
GoLocals(s) ==
    (IF s.fun.k = "funclit" \/ (s.fun.k = "ident" /\ s.fun.o = "local")
        \/ (s.fun.k = "selector" /\ s.fun.selKind = "FieldVal")
     THEN 1 ELSE 0)
    + (IF s.fun.k = "selector" /\ s.fun.selKind = "MethodVal" THEN 1 ELSE 0)
    + Len(s.args)

\* C9: every go statement evaluates function value, receiver and arguments
\* into fresh locals, defines wrap, which calls goready() and then the target
\* with its parameters in order, and starts it with GOWAIT(wrap(...)) on
\* those locals.
C9_GoWrap ==
    (Translated /\ input.body[1].k = "go") =>
        \E w \in 1 .. Len(out) :
            /\ out[w].k = "wrapdef"
            /\ out[w + 1].k = "goready"
            /\ out[w + 2].k = "callstmt"
            /\ LET P == out[w].params
                   c == out[w + 2]
               IN  /\ Len(P) = GoLocals(input.body[1])
                   /\ \A i, j \in 1 .. Len(P) : i # j => P[i] # P[j]
                   /\ \/ c.f \in DefinedFunctions /\ c.args = P
                      \/ Len(P) >= 1 /\ c.f = P[1] /\ c.args = Tail(P)
                   /\ \A i \in 1 .. Len(P) :
                         \E j \in (w + 3) .. Len(out) : out[j].k = "init" /\ out[j].n = P[i]
                   /\ \E j \in (w + 3) .. Len(out) : out[j].k = "GOWAIT" /\ out[j].args = P

-----------------------------------------------------------------------------
(* Labelled statements and labelled jumps                                   *)

\* the statements a label L can stand on, holding c in their body
Labellable(c) ==
    [for0   |-> ForS(NoStmt, TRUE, Ident("c"), NoStmt, <<c>>),
     for1   |-> ForS(NoStmt, TRUE, Ident("c"), IncDecS("++", Ident("i")), <<c>>),
     range0 |-> RangeS(TIdent("s", "slice"), "slice", 0, Ident("k"), FALSE, NoStmt, ":=", <<c>>),
     range1 |-> RangeS(TIdent("s", "slice"), "slice", 0, Ident("k"), TRUE, Ident("e"), ":=",
                       <<c>>),
     switch |-> SwitchS(NoStmt, TRUE, Ident("x"), <<Clause(FALSE, <<Const(1)>>, <<c>>)>>),
     select |-> SelectS(<<CommClause(RecvComm(TIdent("ch", "chan"), <<>>, "=", 0), <<c>>)>>),
     block  |-> BlockS(<<c>>)]

LoopKinds == {"for0", "for1", "range0", "range1"}
BreakKinds == LoopKinds \cup {"switch", "select"}

\* the jumps that may name the label of a statement of kind kd
JumpsTo(kd) ==
    {BranchS("goto", "L"), ExprS(Call("g"))}
    \cup (IF kd \in BreakKinds THEN {BranchS("break", "L")} ELSE {})
    \cup (IF kd \in LoopKinds THEN {BranchS("continue", "L")} ELSE {})

\* where the jump stands inside the labelled statement: directly, under an
\* if, or inside an unlabelled inner loop, switch or select
Placements(b) ==
    {b, IfS(NoStmt, Ident("c"), <<b>>, NoStmt)}
    \cup {Labellable(b)[kd] : kd \in {"for0", "for1", "range0", "switch", "select", "block"}}

\* L: <statement>, alone or followed by another statement
InitLabel ==
    /\ BodyStart
    /\ \E kd \in DOMAIN Labellable(NoStmt) :
          \E b \in JumpsTo(kd) :
             \E c \in Placements(b), after \in {<<>>, <<ExprS(Call("g"))>>} :
                input = Body(<<LabeledS("L", Labellable(c)[kd])>> \o after, "void", <<>>)

SpecLabel == InitLabel /\ [][TranslateBody]_vars

LabelLines(text, lab) == {i \in 1 .. Len(text) : text[i].k = "label" /\ text[i].lab = lab}

\* kd is the kind of the labelled statement s
IsKind(s, K) ==
    \/ s.k = "for" /\ "for0" \in K
    \/ s.k = "range" /\ "range0" \in K
    \/ s.k = "switch" /\ "switch" \in K
    \/ s.k = "select" /\ "select" \in K

\* C10: every labelled statement gets `L$:;` in front of it and, once each,
\* `L$_break:;` after a labelled for, range, switch or select and
\* `L$_continue:;` for a labelled for or range; no goto names a label that
\* the body does not hold.
C10_JumpTargets ==
    (Translated /\ input.body[1].k = "labeled") =>
        LET s == input.body[1].stmt
        IN  /\ LabelLines(out, "L$") = {2}
            /\ IsKind(s, BreakKinds) => Cardinality(LabelLines(out, "L$_break")) = 1
            /\ IsKind(s, LoopKinds) => Cardinality(LabelLines(out, "L$_continue")) = 1
            /\ \A j \in 1 .. Len(out) :
                  out[j].k = "goto" => LabelLines(out, out[j].lab) # {}

-----------------------------------------------------------------------------
(* Range statements                                                         *)
(* Scenario "range": for i[, v] tok range X { use(i, v) } is translated and *)
(* the emitted loop runs on an operand of input.len elements.  X is the     *)
(* variable a or the call f(); its type input.s.xt is what exprType gives:  *)
(* "array", "slice", "ptr" (pointer to array), "string", or "named" for a   *)
(* defined type, whose underlying kind is input.under.  trace lists the     *)
(* (key, value) pairs use was called with.                                  *)

RangeTypes == {"array", "slice", "ptr", "string", "named"}

UseCall == ExprS(Call("use"))

\* the operand holds len elements
RangeOperands(len) == {[p \in 1 .. len |-> p - 1], [p \in 1 .. len |-> len - p]}

InitRange ==
    /\ scen = "range"
    /\ \E xt \in RangeTypes, isIdent \in BOOLEAN, len \in 0 .. ArrLen, tok \in {":=", "="},
          val \in {"none", "v", "_"}, cont \in BOOLEAN, under \in {"array", "slice"} :
          \E a \in RangeOperands(len) :
             input = [s |-> RangeS(IF isIdent THEN TIdent("a", xt) ELSE Call("f"),
                                   xt, len, Ident("i"), val # "none",
                                   IF val = "_"
                                   THEN (IF tok = "=" THEN BlankUse ELSE BlankDef)
                                   ELSE Ident("v"),
                                   tok,
                                   IF cont THEN <<UseCall, BranchS("continue", "")>>
                                   ELSE <<UseCall>>),
                      len |-> len, a |-> a,
                      under |-> IF xt = "named" THEN under ELSE xt]
    /\ out = <<>>
    /\ flag = FALSE
    /\ pc = 0
    /\ st = [vars |-> IF input.s.tok = "=" THEN ("i$" :> 0) @@ ("v$" :> 0) ELSE <<>>,
             arr |-> input.a,
             len |-> IF input.s.x.k = "ident" THEN ("a$" :> input.len) ELSE <<>>,
             evals |-> 0]
    /\ trace = <<>>

TranslateRange ==
    /\ scen = "range"
    /\ pc = 0
    /\ Written(Stmt(input.s, "", "void", <<>>))
    /\ pc' = 1
    /\ UNCHANGED <<scen, input, st, trace>>

\* the for line of the loop around line i
RECURSIVE ForOf(_, _)
ForOf(text, i) == IF text[i].k = "for" THEN i ELSE ForOf(text, i - 1)

\* the value of the bound xl written into the for line
BoundOf(xl, m) ==
    IF \E n \in 0 .. (ArrLen + 1) : xl = ToString(n)
    THEN CHOOSE n \in 0 .. (ArrLen + 1) : xl = ToString(n)
    ELSE m.len[CHOOSE xs \in DOMAIN m.len : xl = "len(" \o xs \o ")"]

\* ++ks and back to the test of the for line f
RangeStep(f) ==
    /\ st' = [st EXCEPT !.vars[out[f].e[1].n] = @ + 1]
    /\ pc' = f
    /\ trace' = trace

\* one line of the emitted loop runs; nothing runs once the translator has
\* given up with notImplemented
ExecRange ==
    /\ scen = "range"
    /\ pc >= 1
    /\ pc <= Len(out)
    /\ \A i \in 1 .. Len(out) : out[i].k # "notImplemented"
    /\ LET c == out[pc]
       IN  CASE c.k = "init" ->
                   /\ st' = [st EXCEPT !.len = (c.n :> input.len) @@ st.len,
                                       !.evals = st.evals + 1]
                   /\ pc' = pc + 1
                   /\ trace' = trace
             [] c.k = "asg" ->
                   /\ st' = [st EXCEPT !.vars = (c.l.n :> Eval(c.r, st)) @@ st.vars]
                   /\ pc' = pc + 1
                   /\ trace' = trace
             [] c.k = "for" ->
                   /\ pc' = IF st.vars[c.e[1].n] < BoundOf(c.lab, st)
                            THEN pc + 1
                            ELSE CloseOf(out, pc + 1, 0) + 1
                   /\ UNCHANGED <<st, trace>>
             [] c.k = "expr" ->
                   /\ trace' = Append(trace,
                                      [key |-> st.vars["i$"],
                                       val |-> IF "v$" \in DOMAIN st.vars
                                               THEN st.vars["v$"] ELSE -1])
                   /\ pc' = pc + 1
                   /\ st' = st
             [] c.k = "continue" -> RangeStep(ForOf(out, pc))
             [] c.k = "}" /\ pc = CloseOf(out, ForOf(out, pc) + 1, 0) ->
                   RangeStep(ForOf(out, pc))
             [] OTHER ->
                   /\ pc' = pc + 1
                   /\ UNCHANGED <<st, trace>>
    /\ UNCHANGED <<scen, input, out, flag>>

NextRange == TranslateRange \/ ExecRange

SpecRange == InitRange /\ [][NextRange]_vars

RangeTranslated == scen = "range" /\ pc >= 1
RangeDone == scen = "range" /\ pc = Len(out) + 1

\* the language definition: the iterations of the range statement
GoRange(s, a) ==
    [p \in 1 .. Len(a) |->
        [key |-> p - 1,
         val |-> IF s.tok = "=" /\ ~RangeHasValue(s) THEN 0
                 ELSE IF RangeHasValue(s) THEN a[p] ELSE -1]]

\* the emitted text is an integer index loop over the key with bound xl
IndexLoop(text, s, xl) ==
    /\ \A i \in 1 .. Len(text) : text[i].k # "notImplemented"
    /\ \E i \in 1 .. Len(text) :
          /\ text[i].k = "for"
          /\ text[i].lab = xl
          /\ text[i].e = << [k |-> "name", n |-> "i$"] >>
    /\ \E i \in 1 .. Len(text) :
          /\ text[i].k = "asg"
          /\ text[i].r = [k |-> "lit", v |-> 0]
          /\ text[i].l = IF s.tok = ":=" THEN [k |-> "vardecl", t |-> "int", n |-> "i$"]
                         ELSE [k |-> "name", n |-> "i$"]

\* C11: a range statement over an array, a slice, a string or a pointer to
\* an array, of a named or an unnamed type, is emitted as an integer index
\* loop whose bound is the compile-time length for arrays and pointers to
\* arrays and len(x) otherwise, whose key is declared int under :=, and
\* whose body runs once per index 0 .. len-1 in increasing order with the
\* key equal to the index and the value equal to the element at that index.
C11_RangeIndexLoop ==
    RangeTranslated =>
        /\ IndexLoop(out, input.s,
                     IF input.under \in {"array", "ptr"} THEN ToString(input.len)
                     ELSE "len(" \o RangeXs(input.s) \o ")")
        /\ RangeDone => trace = GoRange(input.s, input.a)

-----------------------------------------------------------------------------
(* Boxing                                                                   *)
(* Scenario "box": interfaceExpr is applied to an expression of type E and  *)
(* a target type I such that the expression may stand where a value of      *)
(* type I is expected.  out is the buffer w afterwards, trace the fatal    *)
(* errors reported.                                                         *)

ConcreteTypes == {"int", "T", "*T", "Big", "*Big", "slice"}
InterfaceTypes == {"iface", "Any", "Reader", "ReadWriter"}

\* the method set of a type
MethodSet(t) ==
    CASE t = "T"    -> {"Read"}
      [] t = "*T"   -> {"Read", "Write"}
      [] t \in {"Big", "*Big"} -> {"Read"}
      [] OTHER -> {Methods(t)[i] : i \in 1 .. Len(Methods(t))}

\* a value of type e may be assigned to a variable of type i
AssignableTo(e, i) ==
    \/ i = ""
    \/ e = i
    \/ IsInterface(i) /\ e = "untyped nil"
    \/ /\ IsInterface(i)
       /\ e \in ConcreteTypes \cup InterfaceTypes
       /\ \A k \in 1 .. Len(Methods(i)) : Methods(i)[k] \in MethodSet(e)

\* the expressions of type t: a local or package-level variable, a call
BoxOperands(t) ==
    IF t = "untyped nil" THEN {NilLit}
    ELSE {TIdent("x", t), [TIdent("x", t) EXCEPT !.o = "pkg"], TCall("f", t)}

InitBox ==
    /\ scen = "box"
    /\ \E E \in ConcreteTypes \cup InterfaceTypes \cup {"", "untyped nil"},
          I \in InterfaceTypes \cup {"", "int"} :
          /\ AssignableTo(E, I)
          /\ \E e \in BoxOperands(E) : input = [e |-> e, ityp |-> I]
    /\ out = <<>>
    /\ flag = FALSE
    /\ pc = 0
    /\ st = <<>>
    /\ trace = <<>>

\* w and the errors after interfaceExpr returned r
BoxWritten(r) ==
    /\ out' = IF r.k = "exit" THEN << >> ELSE << r >>
    /\ trace' = IF r.k = "exit" THEN << r >> ELSE << >>

\* cdd.interfaceExpr(w, expr, ityp) on an empty w
TranslateBox ==
    /\ scen = "box"
    /\ pc = 0
    /\ BoxWritten(interfaceExpr(input.e, input.ityp))
    /\ pc' = 1
    /\ UNCHANGED <<scen, input, flag, st>>

NextBox == TranslateBox

SpecBox == InitBox /\ [][NextBox]_vars

BoxDone == scen = "box" /\ pc = 1

\* `.m = ...` for each method of ityp, in order, each naming the method m of
\* the defined type behind etyp
SlotsOf(slots, etyp, ityp) ==
    /\ Len(slots) = Len(Methods(ityp))
    /\ \A i \in 1 .. Len(slots) :
          /\ slots[i].m = Methods(ityp)[i]
          /\ slots[i].fn.k \in {"name", "cast"}
          /\ slots[i].fn.n \in {Elem(etyp) \o "$" \o Methods(ityp)[i],
                                Elem(etyp) \o "$" \o Methods(ityp)[i] \o "$"}

\* C12: interfaceExpr writes the expression unchanged when the target is
\* absent, not an interface, identical to the expression's type, or the
\* expression is the untyped nil.  A value of non-interface type E that fits
\* into a pointer becomes INTERFACE(e, tid) for an empty target and otherwise
\* a literal of the target type with .interface = INTERFACE(e, tid) and one
\* .m initialiser per method of the target naming E's method m.  A value of
\* interface type becomes e.interface for an empty target and otherwise a
\* copy of .interface and of every method slot of a temporary that holds the
\* source, which is written once.
C12_BoxingForm ==
    BoxDone =>
        LET E == exprType(input.e)
            I == input.ityp
            e == ExprStr(input.e, I)
            r == out[1]
        IN  /\ (I = "" \/ ~IsInterface(I) \/ I = E \/ E = "untyped nil") => r = e
            /\ (IsInterface(I) /\ I # E /\ E \in ConcreteTypes /\ Sizeof(E) <= sizPtr) =>
                  IF Methods(I) = << >>
                  THEN r = [k |-> "box", e |-> e, t |-> E]
                  ELSE /\ r.k = "ibox"
                       /\ r.t = I
                       /\ r.box = [k |-> "box", e |-> e, t |-> E]
                       /\ SlotsOf(r.slots, E, I)
            /\ (IsInterface(I) /\ I # E /\ E \in InterfaceTypes) =>
                  IF Methods(I) = << >>
                  THEN r = [k |-> "sel", x |-> e, f |-> ".interface"]
                  ELSE /\ r.k = "iconv"
                       /\ r.t = I
                       /\ r.tmp = e
                       /\ r.box = [k |-> "sel", x |-> [k |-> "name", n |-> "e"],
                                   f |-> ".interface"]
                       /\ Len(r.slots) = Len(Methods(I))
                       /\ \A i \in 1 .. Len(r.slots) :
                             /\ r.slots[i].m = Methods(I)[i]
                             /\ r.slots[i].fn = [k |-> "sel", x |-> [k |-> "name", n |-> "e"],
                                                 f |-> "." \o Methods(I)[i]]

\* a pointer to T has been boxed into a ReadWriter
C12_Witness ==
    /\ BoxDone
    /\ exprType(input.e) = "*T"
    /\ out[1].k = "ibox"
    /\ Len(out[1].slots) = 2

-----------------------------------------------------------------------------
(* Boundaries                                                               *)
(* Scenario "boundary": a statement is translated in which the operand v of *)
(* concrete type input.etyp stands at one position whose expected type is   *)
(* the interface type input.ityp.  input.at names the position.             *)

Boundaries ==
    {"assign", "parallel", "define", "tuple", "return", "results", "call",
     "send", "select send", "array", "slice", "struct", "go"}

\* the statement with v at the boundary b; x is a variable of type I that
\* was declared before, i and n are integers, f returns (E, int)
BoundaryStmt(b, v, I) ==
    CASE b = "assign" ->
            [k |-> "assign", uid |-> 0,
             a |-> [Tok |-> "=", Lhs |-> << TIdent("x", I) >>, Rhs |-> << v >>,
                    newv |-> {}]]
      [] b = "parallel" ->
            [k |-> "assign", uid |-> 0,
             a |-> [Tok |-> "=", Lhs |-> << TIdent("x", I), Ident("i") >>,
                    Rhs |-> << v, Const(0) >>, newv |-> {}]]
      [] b = "define" ->
            [k |-> "assign", uid |-> 0,
             a |-> [Tok |-> ":=", Lhs |-> << TIdent("x", I), Ident("n") >>,
                    Rhs |-> << v, Const(0) >>, newv |-> {2}]]
      [] b = "tuple" ->
            [k |-> "assign", uid |-> 0,
             a |-> [Tok |-> "=", Lhs |-> << TIdent("x", I), Ident("i") >>,
                    Rhs |-> << Call("f") >>, newv |-> {}]]
      [] b = "return"  -> ReturnS(<< v >>)
      [] b = "results" -> ReturnS(<< v, Const(0) >>)
      [] b = "call" ->
            ExprS(CallX([k |-> "ident", n |-> "g", o |-> "pkg", t |-> "func"],
                        << v >>, << I >>, "int"))
      [] b = "send" -> SendS(ChanOf("c", I), v)
      [] b = "select send" ->
            SelectS(<< CommClause(SendComm(ChanOf("c", I), v), << >>) >>)
      [] b \in {"array", "slice", "struct"} ->
            [k |-> "assign", uid |-> 0,
             a |-> [Tok |-> "=", Lhs |-> << TIdent("y", b) >>,
                    Rhs |-> << CompositeLit(b, I, << I >>, << v >>) >>,
                    newv |-> {}]]
      [] b = "go" ->
            GoS([k |-> "ident", n |-> "g", o |-> "pkg", t |-> "func"], << v >>, << I >>)

\* the result types of the enclosing function
BoundaryTup(b, I) == IF b = "results" THEN << I, "int" >> ELSE << I >>

InitBoundary ==
    /\ scen = "boundary"
    /\ \E b \in Boundaries, E \in {"int", "T", "*T"}, I \in InterfaceTypes :
          /\ AssignableTo(E, I)
          /\ \E v \in BoxOperands(E) : input = [at |-> b, v |-> v, etyp |-> E, ityp |-> I]
    /\ out = <<>>
    /\ flag = FALSE
    /\ pc = 0
    /\ st = <<>>
    /\ trace = <<>>

TranslateBoundary ==
    /\ scen = "boundary"
    /\ pc = 0
    /\ Written(Stmt(BoundaryStmt(input.at, input.v, input.ityp), "", "res",
                    BoundaryTup(input.at, input.ityp)))
    /\ pc' = 1
    /\ UNCHANGED <<scen, input, st, trace>>

NextBoundary == TranslateBoundary

SpecBoundary == InitBoundary /\ [][NextBoundary]_vars

BoundaryDone == scen = "boundary" /\ pc = 1

\* the expressions a C expression passes on: the elements of a literal, the
\* arguments of a call
Inner(ce) ==
    IF ce.k = "complit" THEN {ce.elts[i] : i \in 1 .. Len(ce.elts)}
    ELSE IF ce.k \in {"callx", "icall"} THEN {ce.args[i] : i \in 1 .. Len(ce.args)}
    ELSE {}

\* the expressions written in line c
Operands(c) ==
    LET top == IF c.k \in {"init", "void", "asg"} THEN {c.r}
               ELSE IF c.k \in {"return", "expr", "SEND", "macro"}
                    THEN {c.e[i] : i \in 1 .. Len(c.e)}
               ELSE {}
    IN  top \cup UNION {Inner(ce) : ce \in top}

\* the text of the operand before boxing: component 0 of the temporary for a
\* tuple assignment, else the expression
BareOperand ==
    IF input.at = "tuple" THEN [k |-> "field", x |-> TupTmp(0), f |-> 0]
    ELSE Expr(input.v, input.ityp)

\* C13: wherever an expression of non-interface type stands where an
\* interface is expected (right-hand side of an assignment, result of a
\* return, argument of a call, value of a send or of a select send, element
\* of an array, slice or struct literal, argument of a go statement,
\* component of a tuple assignment) the emitted text holds the boxed form of
\* interfaceExpr and nowhere the bare expression.
C13_BoxedAtBoundary ==
    BoundaryDone =>
        /\ \E i \in 1 .. Len(out) :
              Boxed(input.v, BareOperand, input.etyp, input.ityp) \in Operands(out[i])
        /\ \A i \in 1 .. Len(out) : BareOperand \notin Operands(out[i])

\* the types of the scenario whose values are wider than a pointer
WiderThanPointer == {"Big", "slice"}

\* C14: interfaceExpr reports the fatal error, with the position of the
\* expression, exactly when the target is an interface, the expression has a
\* non-interface type other than the target, is not the untyped nil, and
\* its type is wider than a pointer; then nothing has been written to w.
\* In every other case no error is reported.
C14_TooLargeForInterface ==
    BoxDone =>
        IF /\ IsInterface(input.ityp)
           /\ exprType(input.e) \in WiderThanPointer
           /\ exprType(input.e) # input.ityp
        THEN /\ trace = << [k |-> "exit", pos |-> input.e] >>
             /\ out = << >>
        ELSE /\ trace = << >>
             /\ Len(out) = 1

\* a struct of two words was to be boxed
C14_Witness ==
    /\ BoxDone
    /\ exprType(input.e) = "Big"
    /\ input.ityp = "Reader"
    /\ Len(trace) = 1

-----------------------------------------------------------------------------
(* Equality                                                                 *)
(* Scenario "equal": the comparison a op b of two operands of interface     *)
(* type input.typ is translated, as a binary expression or as the test of   *)
(* `switch a { case b: }`.  b may be the nil literal.                       *)

EqualOperands(n, t) ==
    {TIdent(n, t), [TIdent(n, t) EXCEPT !.o = "pkg"], TCall(n, t)}

EqualStmt(at, op, a, b) ==
    IF at = "binary" THEN ExprS(BinaryExpr(op, a, b))
    ELSE SwitchS(NoStmt, TRUE, a, << Clause(FALSE, << b >>, << >>) >>)

InitEqual ==
    /\ scen = "equal"
    /\ \E at \in {"binary", "switch"}, op \in {"==", "!="},
          typ \in InterfaceTypes \cup {"ifaceM"} :
          \E a \in EqualOperands("a", typ), b \in EqualOperands("b", typ) \cup {NilLit} :
             /\ at = "switch" => op = "=="
             /\ input = [at |-> at, op |-> op, typ |-> typ, a |-> a, b |-> b]
    /\ out = <<>>
    /\ flag = FALSE
    /\ pc = 0
    /\ st = <<>>
    /\ trace = <<>>

TranslateEqual ==
    /\ scen = "equal"
    /\ pc = 0
    /\ Written(Stmt(EqualStmt(input.at, input.op, input.a, input.b), "", "void", << >>))
    /\ pc' = 1
    /\ UNCHANGED <<scen, input, st, trace>>

NextEqual == TranslateEqual

SpecEqual == InitEqual /\ [][NextEqual]_vars

EqualDone == scen = "equal" /\ pc = 1

\* the comparisons written: the expression of the statement, the tests of
\* the if lines
Comparisons(text) ==
    {text[i].e[1] : i \in {j \in 1 .. Len(text) : text[j].k \in {"expr", "if"}}}

\* the boxed value of an operand written as ce: ce itself for an empty
\* interface, ce.interface otherwise
BoxOf(ce, typ) ==
    [k |-> "sel", x |-> ce, f |-> IF Methods(typ) = << >> THEN "" ELSE ".interface"]

\* C15: for two operands of interface type, neither the nil literal, the
\* comparison is emitted as EQUALI over the boxed value of the left operand
\* and the boxed value of the right operand, negated for !=; the same holds
\* for the test tag == e of a switch over an interface tag.
C15_InterfaceEquality ==
    (EqualDone /\ input.b # NilLit) =>
        \A c \in Comparisons(out) :
            /\ c.k = "equali"
            /\ c.neg = (input.op = "!=")
            /\ c.l = BoxOf(IF input.at = "switch" THEN [k |-> "name", n |-> "tag"]
                           ELSE Expr(input.a, input.typ), input.typ)
            /\ c.r = BoxOf(Expr(input.b, input.typ), input.typ)

-----------------------------------------------------------------------------
(* Method values                                                            *)
(* Scenario "selector": SelectorExpr translates the method value x.m, where *)
(* m is reached through up to MaxPath embedded fields and is declared with  *)
(* a pointer receiver (recvKind "ptr") or a value receiver ("struct").      *)

MaxPath == 2

\* the embedded fields passed: each is f or g, of pointer type or not
Paths(n) == [1 .. n -> [n : {"f", "g"}, ptr : BOOLEAN]]

InitSelector ==
    /\ scen = "selector"
    /\ \E x \in {TIdent("x", "struct"), [TIdent("x", "struct") EXCEPT !.o = "pkg"],
                 Call("h")},
          xptr \in BOOLEAN, n \in 0 .. MaxPath, recvKind \in {"ptr", "struct"} :
          \E path \in Paths(n) :
             input = [e |-> SelectorPath(x, xptr, path, "m", "MethodVal", recvKind)]
    /\ out = <<>>
    /\ flag = FALSE
    /\ pc = 0
    /\ st = <<>>
    /\ trace = <<>>

\* cdd.SelectorExpr(w, e): out holds the text written and the results
TranslateSelector ==
    /\ scen = "selector"
    /\ pc = 0
    /\ out' = << SelectorExpr(input.e) >>
    /\ pc' = 1
    /\ UNCHANGED <<scen, input, flag, st, trace>>

NextSelector == TranslateSelector

SpecSelector == InitSelector /\ [][NextSelector]_vars

SelectorDone == scen = "selector" /\ pc = 1

\* whether component i of the chain x, path[1], ..., path[n] is of pointer type
ComponentPtr(e, i) == IF i = 0 THEN e.xptr ELSE e.path[i].ptr

\* the chain up to and including path[i]: each field is joined to what is in
\* front of it with -> when that component is a pointer and with . otherwise
RECURSIVE Chain(_, _)
Chain(e, i) ==
    IF i = 0 THEN CText(ExprStr(e.x, ""))
    ELSE Chain(e, i - 1) \o (IF ComponentPtr(e, i - 1) THEN "->" ELSE ".") \o e.path[i].n

\* C17: for a method value on a concrete receiver, with x the operand after
\* the embedded-field path, SelectorExpr returns &x of pointer type when the
\* method has a pointer receiver and x is no pointer, *x of type T when the
\* method has a value receiver and x is a pointer, and x unchanged
\* otherwise; the path is joined with -> exactly where the component in
\* front is a pointer and with . otherwise.
C17_ReceiverAdjustment ==
    SelectorDone =>
        LET e == input.e
            x == Chain(e, Len(e.path))
            p == ComponentPtr(e, Len(e.path))
            r == out[1]
        IN  /\ (e.recvKind = "ptr" /\ ~p) => (r.recvs = "&" \o x /\ r.recvt = "ptr")
            /\ (e.recvKind = "struct" /\ p) => (r.recvs = "*" \o x /\ r.recvt = "struct")
            /\ (e.recvKind = "ptr" /\ p) => (r.recvs = x /\ r.recvt = "ptr")
            /\ (e.recvKind = "struct" /\ ~p) => (r.recvs = x /\ r.recvt = "struct")

\* x.f.g.m with x a pointer, f a value, g a pointer and m on a value receiver
C17_Witness ==
    /\ SelectorDone
    /\ input.e.xptr
    /\ Len(input.e.path) = 2
    /\ ~input.e.path[1].ptr
    /\ input.e.path[2].ptr
    /\ input.e.recvKind = "struct"
    /\ out[1].recvs = "*x$->f.g"

-----------------------------------------------------------------------------
(* Calls of interface methods                                               *)
(* Scenario "icall": the call x.m(args...) with x of interface type is      *)
(* translated as an expression statement.  x is a variable, or a call, or   *)
(* is followed by an embedded field.                                        *)

CallArgs(n) == [1 .. n -> {Const(0), Const(1), Ident("i")}]

InitIcall ==
    /\ scen = "icall"
    /\ \E x \in {TIdent("x", "Reader"), [TIdent("x", "Reader") EXCEPT !.o = "pkg"],
                 TCall("h", "Reader")},
          n \in 0 .. MaxArgs, p \in 0 .. 1, xptr \in BOOLEAN :
          \E args \in CallArgs(n), path \in Paths(p) :
             input = [e |-> CallX(SelectorPath(x, xptr, path, "m", "MethodVal", "iface"),
                                  args, [i \in 1 .. n |-> "int"], "int")]
    /\ out = <<>>
    /\ flag = FALSE
    /\ pc = 0
    /\ st = <<>>
    /\ trace = <<>>

TranslateIcall ==
    /\ scen = "icall"
    /\ pc = 0
    /\ Written(Stmt(ExprS(input.e), "", "void", << >>))
    /\ pc' = 1
    /\ UNCHANGED <<scen, input, st, trace>>

NextIcall == TranslateIcall

SpecIcall == InitIcall /\ [][NextIcall]_vars

IcallDone == scen = "icall" /\ pc = 1

\* the call is written as r.m(r.<box>, args...): the receiver text stands
\* twice only when the receiver is a plain identifier, otherwise it is
\* stored once in the local r
OnceEvaluated(c, fun) ==
    /\ c.k = "icall"
    /\ c.fun = [k |-> "name", n |-> fun.sel]
    /\ c.recv = Chain(fun, Len(fun.path))
    /\ c.tmp = (fun.x.k # "ident")
    /\ c.args = [i \in 1 .. Len(input.e.args) |-> Expr(input.e.args[i], "int")]

\* C18: a call of method m on an interface receiver is emitted as
\* r.m(r.interface, args...), .interface being the field that boxing fills,
\* and the receiver is evaluated once: its text stands twice only when it
\* is a plain identifier, otherwise it is stored in a local r first.
C18_InterfaceCall ==
    IcallDone =>
        /\ OnceEvaluated(out[1].e[1], input.e.fun)
        /\ out[1].e[1].box = ".interface"

-----------------------------------------------------------------------------
(* Names                                                                    *)
(* Scenario "name": Name is called on objects, in any order and mixed with  *)
(* other operations that draw a unique identifier.  An object is            *)
(*   [kind, name, ptr, local, pkg]                                          *)
(* kind: "nil" (no object), "pkgname", "method", "func", "var", "const"     *)
(* (true has no package); ptr: the                                          *)
(* method has a pointer receiver; local: gtc.isLocal of the object, for a   *)
(* method of the object of its receiver's named type; pkg: obj.Pkg() is     *)
(* not nil.  st.uid is the counter behind gtc.uniqueId, st.refs the         *)
(* reference set of the CDD, trace the calls of Name with the text written. *)

\* calls of Name in one run
MaxCalls == 2

Obj(kind, name, ptr, local, pkg) ==
    [kind |-> kind, name |-> name, ptr |-> ptr, local |-> local, pkg |-> pkg]

Objects ==
    {Obj("nil", "", FALSE, FALSE, FALSE), Obj("pkgname", "lib", FALSE, FALSE, TRUE),
     Obj("var", "_", FALSE, TRUE, TRUE), Obj("const", "true", FALSE, FALSE, FALSE)}
    \cup {Obj("method", "m", p, l, TRUE) : p \in BOOLEAN, l \in BOOLEAN}
    \cup {Obj(k, n, FALSE, l, TRUE) : k \in {"func", "var"}, n \in {"x", "init"},
                                      l \in BOOLEAN}

\* gtc.uniqueId(): the text of the counter, which the call advances
uniqueId(uid) == ToString(uid)

\* cdd.addObject(o, direct) on the reference set refs
addObject(refs, o, direct) == refs \cup {[o |-> o, direct |-> direct]}

Direct_Caller(o, direct) == direct

\* lines 929-932: direct as passed to addObject
Direct(o, direct) == direct /\ ~(o.kind = "method" /\ o.ptr)

\* lines 936-938 and 943-944: whether Name calls addObject
Added(o) ==
    CASE o.kind \in {"nil", "pkgname"} -> FALSE
      [] o.kind = "method" -> ~o.local
      [] OTHER -> o.pkg /\ ~o.local

\* CDD.Name(w, obj, direct) with the counter at uid: the text written, the
\* counter and the reference set afterwards
NameOf(o, direct, uid, refs) ==
    [w    |-> CASE o.kind = "nil"     -> "_"
                [] o.kind = "pkgname" -> o.name
                [] o.kind = "method"  -> MethodName("T", o.name)
                [] OTHER ->
                      (IF o.pkg /\ ~o.local THEN "pkg$" ELSE "")
                      \o (IF o.name = "init" THEN uniqueId(uid) \o o.name
                          ELSE o.name \o (IF o.local THEN "$" ELSE "")),
     uid  |-> IF o.kind \notin {"nil", "pkgname", "method"} /\ o.name = "init"
              THEN uid + 1 ELSE uid,
     refs |-> IF Added(o) THEN addObject(refs, o, Direct(o, direct)) ELSE refs]

InitName ==
    /\ scen = "name"
    /\ input = << >>
    /\ out = <<>>
    /\ flag = FALSE
    /\ pc = 0
    /\ \E u \in 0 .. MaxUid : st = [uid |-> u, refs |-> {}]
    /\ trace = <<>>

\* the state after Name returned r for the call (o, direct)
Named(o, direct, r) ==
    /\ trace' = Append(trace, [o |-> o, direct |-> direct, w |-> r.w])
    /\ st' = [uid |-> r.uid, refs |-> r.refs]

NameCall ==
    /\ scen = "name"
    /\ Len(trace) < MaxCalls
    /\ \E o \in Objects, direct \in BOOLEAN :
          Named(o, direct, NameOf(o, direct, st.uid, st.refs))
    /\ UNCHANGED <<scen, input, out, flag, pc>>

\* another operation of the translator draws a unique identifier (a
\* temporary, a label); at most one between two calls of Name
DrawId ==
    /\ scen = "name"
    /\ pc = Len(trace)
    /\ Len(trace) < MaxCalls
    /\ st' = [st EXCEPT !.uid = @ + 1]
    /\ pc' = pc + 1
    /\ UNCHANGED <<scen, input, out, flag, trace>>

NextName == NameCall \/ DrawId

SpecName == InitName /\ [][NextName]_vars

\* C19: in one run, two calls of Name on the same object, whatever happens
\* between them and whatever the object is (a package name, function,
\* method, variable, an object named init, the blank identifier), write the
\* same C identifier.
C19_NameStable ==
    scen = "name" =>
        \A i, j \in 1 .. Len(trace) :
            trace[i].o = trace[j].o => trace[i].w = trace[j].w

\* what the calls of Name made so far must have recorded: a method whose
\* receiver type is not local, not direct under a pointer receiver; any other
\* object with a package that is not local, with the caller's flag
Recorded(c) ==
    IF c.o.kind = "method"
    THEN (IF ~c.o.local THEN {[o |-> c.o, direct |-> c.direct /\ ~c.o.ptr]} ELSE {})
    ELSE IF c.o.kind \notin {"nil", "pkgname"} /\ c.o.pkg /\ ~c.o.local
         THEN {[o |-> c.o, direct |-> c.direct]}
         ELSE {}

\* C20: Name adds the object to the reference set exactly when it is not
\* local: a method when the named type of its receiver is not local, with
\* direct forced to false under a pointer receiver; any other object with a
\* package when the object is not local, with the caller's direct flag.  A
\* local object, a package name and the nil object leave the set unchanged.
C20_ReferencesRecorded ==
    scen = "name" =>
        st.refs = UNION {Recorded(trace[i]) : i \in 1 .. Len(trace)}

\* a method with a pointer receiver on a type of another unit was named with
\* direct set, and a local variable was named
C20_Witness ==
    /\ scen = "name"
    /\ Len(trace) = 2
    /\ trace[1].o = Obj("method", "m", TRUE, FALSE, TRUE)
    /\ trace[1].direct
    /\ trace[2].o = Obj("var", "x", FALSE, TRUE, TRUE)
    /\ st.refs = {[o |-> trace[1].o, direct |-> FALSE]}


\* ---------------------------------------------------------------------------
\* Integer constants: writeInt.  Text is a sequence of one-character strings,
\* an exact.Value of kind Int is its decimal text ev.String().
\* ---------------------------------------------------------------------------

MaxOff == 4

DigitStr == <<"0", "1", "2", "3", "4", "5", "6", "7", "8", "9">>
HexStr == DigitStr \o <<"a", "b", "c", "d", "e", "f">>
DigitChars == {DigitStr[i] : i \in 1 .. 10}
DigitChar(n) == DigitStr[n + 1]
DigitVal(c) == CHOOSE n \in 0 .. 9 : DigitStr[n + 1] = c

\* strconv.FormatUint(u, base) for base 10 and 16
RECURSIVE FormatUint(_, _)
FormatUint(u, base) ==
    IF u < base THEN << HexStr[u + 1] >>
    ELSE FormatUint(u \div base, base) \o << HexStr[(u % base) + 1] >>

\* exact.Uint64Val of a decimal text small enough for TLC's integers
RECURSIVE Uint64Val(_)
Uint64Val(d) ==
    IF d = << >> THEN 0
    ELSE 10 * Uint64Val(SubSeq(d, 1, Len(d) - 1)) + DigitVal(d[Len(d)])

MaxInt32 == <<"2", "1", "4", "7", "4", "8", "3", "6", "4", "7">>
MaxUint32 == <<"4", "2", "9", "4", "9", "6", "7", "2", "9", "5">>
MaxInt64 == <<"9", "2", "2", "3", "3", "7", "2", "0", "3", "6", "8", "5", "4", "7", "7", "5", "8", "0", "7">>
MaxUint64 == <<"1", "8", "4", "4", "6", "7", "4", "4", "0", "7", "3", "7", "0", "9", "5", "5", "1", "6", "1", "5">>

IntKinds == {"Int32", "Uint32", "Int64", "Uint64", "Int", "Uintptr"}

\* the largest magnitude of a non-negative value of kind k
MaxOf(k) ==
    CASE k = "Int32" -> MaxInt32
      [] k = "Int" -> MaxInt32
      [] k = "Uint32" -> MaxUint32
      [] k = "Uintptr" -> MaxUint32
      [] k = "Int64" -> MaxInt64
      [] k = "Uint64" -> MaxUint64

\* the text d with its last digit lowered (j >= 0) or raised (j < 0) by j
Near(d, j) == [d EXCEPT ![Len(d)] = DigitChar(DigitVal(d[Len(d)]) - j)]

\* a writeInt that writes every value as its digits and the suffix
IntText_Plain(s, k) ==
    CASE k = "Int32" -> s \o <<"L">>
      [] k = "Uint32" -> s \o <<"U", "L">>
      [] k = "Int64" -> s \o <<"L", "L">>
      [] k = "Uint64" -> s \o <<"U", "L", "L">>
      [] OTHER -> s

\* writeInt: the switch on k
IntText(s, k) ==
    CASE k = "Int32" ->
            IF s = <<"-">> \o Near(MaxInt32, -1)
            THEN <<"-">> \o MaxInt32 \o <<"L", "-", "1", "L">>
            ELSE s \o <<"L">>
      [] k = "Uint32" -> s \o <<"U", "L">>
      [] k = "Int64" ->
            IF s = <<"-">> \o Near(MaxInt64, -1)
            THEN <<"-">> \o MaxInt64 \o <<"L", "L", "-", "1", "L", "L">>
            ELSE s \o <<"L", "L">>
      [] k = "Uint64" -> s \o <<"U", "L", "L">>
      [] OTHER -> s

\* writeInt(w, ev, k) on an empty w, s being ev.String()
writeInt(s, k) ==
    IF k = "Uintptr"
    THEN <<"0", "x">> \o FormatUint(Uint64Val(s), 16)
    ELSE (IF s[1] = "-" THEN <<"(">> ELSE << >>)
         \o IntText(s, k)
         \o (IF s[1] = "-" THEN <<")">> ELSE << >>)

\* the integer constants of kind k: the values next to zero and next to the
\* ends of the kind's range, as decimal text
IntValues(k) ==
    LET small == {FormatUint(n, 10) : n \in 0 .. MaxOff}
        large == {Near(MaxOf(k), j) : j \in 0 .. MaxOff}
        neg == {<<"-">> \o d : d \in (small \ {<<"0">>}) \cup large
                                      \cup {Near(MaxOf(k), -1)}}
    IN  CASE k \in {"Int32", "Int64", "Int"} -> small \cup large \cup neg
          [] k = "Uintptr" -> small
          [] OTHER -> small \cup large

InitInt ==
    /\ scen = "int"
    /\ \E k \in IntKinds : \E s \in IntValues(k) : input = [s |-> s, k |-> k]
    /\ out = << >>
    /\ flag = FALSE
    /\ pc = 0
    /\ st = << >>
    /\ trace = << >>

\* writeInt(w, ev, k)
WriteInt ==
    /\ scen = "int"
    /\ pc = 0
    /\ out' = writeInt(input.s, input.k)
    /\ pc' = 1
    /\ UNCHANGED <<scen, input, flag, st, trace>>

NextInt == WriteInt

SpecInt == InitInt /\ [][NextInt]_vars

IntDone == scen = "int" /\ pc = 1

\* --- reading the emitted text as C ---

\* the longest run of characters of cs in t from position i on
RECURSIVE Run(_, _, _)
Run(t, i, cs) ==
    IF i <= Len(t) /\ t[i] \in cs THEN << t[i] >> \o Run(t, i + 1, cs) ELSE << >>

\* the C tokens of t from position i on: a decimal literal is a run of
\* digits with the suffix letters that follow it, any other character is a
\* token by itself
RECURSIVE Lex(_, _)
Lex(t, i) ==
    IF i > Len(t) THEN << >>
    ELSE IF t[i] \in DigitChars
    THEN << [k |-> "lit", d |-> Run(t, i, DigitChars),
             s |-> Run(t, i + Len(Run(t, i, DigitChars)), {"L", "U"})] >>
         \o Lex(t, i + Len(Run(t, i, DigitChars))
                     + Len(Run(t, i + Len(Run(t, i, DigitChars)), {"L", "U"})))
    ELSE << [k |-> t[i], d |-> << >>, s |-> << >>] >> \o Lex(t, i + 1)

\* a <= b for decimal texts without leading zeros
RECURSIVE LeqFrom(_, _, _)
LeqFrom(a, b, i) ==
    IF i > Len(a) THEN TRUE
    ELSE IF a[i] # b[i] THEN DigitVal(a[i]) < DigitVal(b[i])
    ELSE LeqFrom(a, b, i + 1)

Leq(a, b) == Len(a) < Len(b) \/ (Len(a) = Len(b) /\ LeqFrom(a, b, 1))

\* a + 1 for a decimal text
RECURSIVE Succ(_)
Succ(a) ==
    IF a = << >> THEN <<"1">>
    ELSE IF a[Len(a)] = "9" THEN Succ(SubSeq(a, 1, Len(a) - 1)) \o <<"0">>
    ELSE Near(a, -1)

\* a + b for decimal texts, b counted down to zero
RECURSIVE Plus(_, _)
Plus(a, b) == IF b = 0 THEN a ELSE Plus(Succ(a), b - 1)

\* the value of the C expression ts, as decimal text, for the forms
\* lit, -lit, -lit - lit, each of them bare or in one pair of parentheses;
\* <<"?">> for any other token sequence
CValue(ts) ==
    LET n == Len(ts)
        u == IF n >= 2 /\ ts[1].k = "(" /\ ts[n].k = ")" THEN SubSeq(ts, 2, n - 1) ELSE ts
        ks == [i \in 1 .. Len(u) |-> u[i].k]
    IN  CASE ks = <<"lit">> -> u[1].d
          [] ks = <<"-", "lit">> -> <<"-">> \o u[2].d
          [] ks = <<"-", "lit", "-", "lit">> /\ Len(u[4].d) = 1 ->
                <<"-">> \o Plus(u[2].d, DigitVal(u[4].d[1]))
          [] OTHER -> <<"?">>

\* the suffix of a literal of kind k
SuffixOf(k) == IF k = "Int32" THEN <<"L">> ELSE <<"L", "L">>

Count(t, c) == Cardinality({i \in 1 .. Len(t) : t[i] = c})

\* C21: for every value of a signed 32-bit or 64-bit kind, the least one
\* included, the text writeInt emits is a C expression of that value in
\* which every decimal literal is at most the kind's maximum and carries
\* the suffix L resp. LL; a negative value stands in one pair of
\* parentheses, a non-negative one in none.
C21_NegativeLiteralSafe ==
    (IntDone /\ input.k \in {"Int32", "Int64"}) =>
        /\ CValue(Lex(out, 1)) = input.s
        /\ \A i \in 1 .. Len(Lex(out, 1)) :
              Lex(out, 1)[i].k = "lit" =>
                 /\ Leq(Lex(out, 1)[i].d, MaxOf(input.k))
                 /\ Lex(out, 1)[i].s = SuffixOf(input.k)
        /\ IF input.s[1] = "-"
           THEN /\ out[1] = "(" /\ out[Len(out)] = ")"
                /\ Count(out, "(") = 1 /\ Count(out, ")") = 1
           ELSE Count(out, "(") = 0 /\ Count(out, ")") = 0

\* the least 64-bit value has been written
C21_Witness ==
    /\ IntDone
    /\ input.k = "Int64"
    /\ input.s = <<"-">> \o Near(MaxInt64, -1)
    /\ out = <<"(", "-">> \o MaxInt64 \o <<"L", "L", "-", "1", "L", "L", ")">>

\* ---------------------------------------------------------------------------
\* Constructs without a translation: Expr, Stmt, indexExpr and Nil on the
\* nodes and types they have no case for.
\* ---------------------------------------------------------------------------

\* x.(t)
TypeAssertExpr(x, t) == [k |-> "typeassert", x |-> x, t |-> t]

\* the node kinds of go/ast expressions that are neither constants nor
\* named by a case of the switch in Expr
OtherExprs == {"BadExpr", "Ellipsis", "ArrayType", "FuncType"}

\* the node kinds of go/ast statements that are not named by a case of the
\* switch in Stmt
OtherStmts == {"DeferStmt", "TypeSwitchStmt", "EmptyStmt", "BadStmt"}

\* the kinds of type a nil hint can have; Nil has a case for each of
\* KnownNil
KnownNil == {"slice", "map", "chan", "ptr", "int", "func", "iface"}
NilHints == KnownNil \cup {"struct", "array"}

\* indexExpr(w, typ, xs, idx) followed by what the fatal error leaves
indexExpr(typ, xs, idx) ==
    LET t == IF typ = "ptr" THEN "array" ELSE typ
        x == CASE t = "string" -> xs \o ".str"
               [] t = "slice" -> "((*)" \o xs \o ".arr)"
               [] OTHER -> xs
    IN  IF t = "map"
        THEN [k |-> "notImplemented", e |-> "IndexExpr"]
        ELSE [k |-> "elem",
              xs |-> IF typ = "ptr" THEN "(*" \o x \o ")" ELSE x,
              idx |-> Expr(idx, "")]

\* the constructs handed to the translator: an expression with a nil hint,
\* a statement, an indexed operand of some type, a nil with a hint
Constructs ==
    {[f |-> "Expr", e |-> e, t |-> t] :
        e \in {NilLit, Ident("x"), Const(1), TypeAssertExpr(Ident("x"), "int")}
              \cup {[k |-> n] : n \in OtherExprs},
        t \in NilHints}
    \cup {[f |-> "Stmt", e |-> s, t |-> ""] :
             s \in {[k |-> n] : n \in OtherStmts}
                   \cup {ExprS(TCall("f", "int"))}
                   \cup {RangeS(Ident("m"), xt, ArrLen, Ident("i"), v, Ident("v"), tok, <<>>) :
                            xt \in {"map", "chan", "slice", "array"},
                            v \in BOOLEAN, tok \in {"=", ":="}}}
    \cup {[f |-> "indexExpr", e |-> i, t |-> t] :
             i \in {Ident("i"), Const(0)},
             t \in {"string", "slice", "array", "ptr", "map"}}

InitConstruct ==
    /\ scen = "construct"
    /\ input \in Constructs
    /\ out = << >>
    /\ flag = FALSE
    /\ pc = 0
    /\ st = << >>
    /\ trace = << >>

\* one call of Expr, Stmt or indexExpr on an empty w
TranslateConstruct ==
    /\ scen = "construct"
    /\ pc = 0
    /\ out' = CASE input.f = "Expr" -> << Expr(input.e, input.t) >>
                [] input.f = "Stmt" -> Stmt(input.e, "", "", << >>).text
                [] input.f = "indexExpr" -> << indexExpr(input.t, "x", input.e) >>
    /\ pc' = 1
    /\ UNCHANGED <<scen, input, flag, st, trace>>

NextConstruct == TranslateConstruct

SpecConstruct == InitConstruct /\ [][NextConstruct]_vars

ConstructDone == scen = "construct" /\ pc = 1

\* the constructs the translator does not implement
Unsupported(c) ==
    CASE c.f = "Expr" ->
            \/ c.e.k = "typeassert"
            \/ c.e.k \in OtherExprs
            \/ (c.e = NilLit /\ c.t \notin KnownNil)
      [] c.f = "Stmt" ->
            \/ c.e.k \in OtherStmts
            \/ (c.e.k = "range" /\ c.e.xt \in {"map", "chan"})
      [] c.f = "indexExpr" -> c.t = "map"

\* the fatal error has been raised for the construct
Fatal(w) == \E i \in 1 .. Len(w) : w[i].k = "notImplemented"

\* text standing for a construct that was not translated
Placeholder(w) ==
    \E i \in 1 .. Len(w) :
        \/ w[i].k = "placeholder"
        \/ (w[i].k = "name" /\ w[i].n = "'unknown nil")

\* C22: for a construct the translator does not implement (a type
\* assertion, a range over a map or a channel, a map index, an expression
\* or statement node without a case, a nil whose hint has no known kind)
\* the fatal error is raised and no placeholder text is written.
C22_UnsupportedFatal ==
    (ConstructDone /\ Unsupported(input)) => (Fatal(out) /\ ~Placeholder(out))

\* ---------------------------------------------------------------------------
\* Evaluations of the right-hand sides in the code of a parallel assignment
\* ---------------------------------------------------------------------------

\* the operand r of an emitted statement reads a temporary
IsTemp(r) == r.k = "name" /\ r.n \notin ProgramNames

NotTemp(r) == ~IsTemp(r)

\* the right-hand-side expressions the emitted statements evaluate, in the
\* order in which the straight-line code runs them
Evaluated(code) == SelectSeq([i \in 1 .. Len(code) |-> code[i].r], NotTemp)

\* C23: the code emitted for a plain assignment with n >= 2 left-hand sides
\* and n right-hand sides evaluates every right-hand side exactly once, from
\* left to right, also the right-hand side whose left-hand side is `_`.
C23_SingleEvaluation ==
    (AssignDone /\ PlainParallel(input.s)) =>
        Evaluated(out) = AssignRhs(input.s, input.uid)

\* ---------------------------------------------------------------------------
\* Scenario "for": a for loop with a post statement is translated and the
\* emitted text is run as C.
\*     [L:] for ; i < n; i++ { use(); <how the iteration ends> }
\* ---------------------------------------------------------------------------

MaxIter == 3

\* the ways the body ends an iteration: by falling off its end, by
\* continue, by continue L, by continue in the first iteration only, by
\* continue inside a switch
ForEnders(labelled) ==
    {<< >>,
     << BranchS("continue", "") >>,
     << IfS(NoStmt, BinaryExpr("==", Ident("i"), Const(0)),
            << BranchS("continue", "") >>, NoStmt) >>,
     << SwitchS(NoStmt, FALSE, NoStmt,
                << Clause(TRUE, << >>, << BranchS("continue", "") >>) >>) >>}
    \cup (IF labelled
          THEN {<< BranchS("continue", "L") >>,
                << IfS(NoStmt, BinaryExpr("==", Ident("i"), Const(0)),
                       << BranchS("continue", "L") >>, NoStmt) >>}
          ELSE {})

ForLoop(n, ender) ==
    ForS(NoStmt, TRUE, BinaryExpr("<", Ident("i"), Const(n)),
         IncDecS("++", Ident("i")), << UseCall >> \o ender)

InitFor ==
    /\ scen = "for"
    /\ \E labelled \in BOOLEAN, n \in 0 .. ArrLen :
          \E ender \in ForEnders(labelled) :
             input = [s |-> IF labelled THEN LabeledS("L", ForLoop(n, ender))
                            ELSE ForLoop(n, ender),
                      n |-> n, ender |-> ender]
    /\ out = << >>
    /\ flag = FALSE
    /\ pc = 0
    /\ st = [vars |-> ("i$" :> 0), conds |-> 0, bodies |-> 0, posts |-> 0]
    /\ trace = << >>

TranslateFor ==
    /\ scen = "for"
    /\ pc = 0
    /\ Written(BlockStmt(<< input.s >>, "void", << >>))
    /\ pc' = 1
    /\ UNCHANGED <<scen, input, st, trace>>

\* the while line of the emitted loop
WhileLine(text) == CHOOSE i \in 1 .. Len(text) : text[i].k = "while"

\* the value of a condition written by Expr
Test(c, m) ==
    CASE c.k = "binop" /\ c.op = "<" -> Eval(c.l, m) < Eval(c.r, m)
      [] OTHER -> Holds(c, m)

\* one line of the emitted loop runs, as C runs it: continue and the end
\* of the block of the while statement lead to the test of the while line,
\* break leaves the enclosing switch, goto leads to its label
ExecFor ==
    /\ scen = "for"
    /\ pc >= 1
    /\ pc <= Len(out)
    /\ st.bodies < MaxIter \/ out[pc].k # "expr"
    /\ LET c == out[pc]
       IN  CASE c.k = "while" ->
                   /\ st' = [st EXCEPT !.conds = @ + 1]
                   /\ pc' = IF Test(c.e[1], st) THEN pc + 1
                            ELSE CloseOf(out, pc + 1, 0) + 1
             [] c.k = "if" ->
                   /\ pc' = IF Test(c.e[1], st) THEN pc + 1
                            ELSE CloseOf(out, pc + 1, 0) + 1
                   /\ st' = st
             [] c.k = "expr" ->
                   /\ st' = [st EXCEPT !.bodies = @ + 1]
                   /\ pc' = pc + 1
             [] c.k = "incdec" ->
                   /\ st' = [st EXCEPT !.vars[c.e[1].n] = @ + 1, !.posts = @ + 1]
                   /\ pc' = pc + 1
             [] c.k = "continue" ->
                   /\ pc' = WhileLine(out)
                   /\ st' = st
             [] c.k = "break" ->
                   /\ pc' = EndOf(out, pc) + 1
                   /\ st' = st
             [] c.k = "goto" ->
                   /\ pc' = CHOOSE i \in LabelLines(out, c.lab) : TRUE
                   /\ st' = st
             [] c.k = "}" /\ pc = CloseOf(out, WhileLine(out) + 1, 0) ->
                   /\ pc' = WhileLine(out)
                   /\ st' = st
             [] OTHER ->
                   /\ pc' = pc + 1
                   /\ st' = st
    /\ UNCHANGED <<scen, input, out, flag, trace>>

NextFor == TranslateFor \/ ExecFor

SpecFor == InitFor /\ [][NextFor]_vars

\* the condition of the loop is about to be evaluated
AtCondition == scen = "for" /\ pc >= 1 /\ pc <= Len(out) /\ out[pc].k = "while"

\* C24: in the code emitted for a for loop with a post statement, each
\* iteration that ends by falling off the body, by an unlabelled continue
\* (also inside a switch) or by a continue naming the loop runs the post
\* statement exactly once before the condition is evaluated again: whenever
\* the condition is about to be evaluated, the post statement has run once
\* for each earlier evaluation.
C24_ContinueRunsPost == AtCondition => st.posts = st.conds

\* ---------------------------------------------------------------------------
\* Scenario "lrange": a labelled range loop is translated and the emitted
\* text is run as C.
\*     L: for i[, v] := range a { use(); <how the iteration ends> }
\* ---------------------------------------------------------------------------

\* the ways the body ends an iteration: by falling off its end, by
\* continue, by continue L, by continue L in the first iteration only
RangeEnders ==
    {<< >>,
     << BranchS("continue", "") >>,
     << BranchS("continue", "L") >>,
     << IfS(NoStmt, BinaryExpr("==", Ident("i"), Const(0)),
            << BranchS("continue", "L") >>, NoStmt) >>}

InitLRange ==
    /\ scen = "lrange"
    /\ \E xt \in {"array", "slice", "ptr"}, len \in 0 .. ArrLen, tok \in {":=", "="},
          hasValue \in BOOLEAN, ender \in RangeEnders :
          input = [s |-> LabeledS("L",
                            RangeS(TIdent("a", xt), xt, len, Ident("i"), hasValue,
                                   Ident("v"), tok, << UseCall >> \o ender)),
                   len |-> len, ender |-> ender]
    /\ out = << >>
    /\ flag = FALSE
    /\ pc = 0
    /\ st = [vars |-> ("i$" :> 0) @@ ("v$" :> 0),
             arr |-> [p \in 1 .. input.len |-> p - 1],
             len |-> ("a$" :> input.len),
             evals |-> 0,
             bodies |-> 0]
    /\ trace = << >>

TranslateLRange ==
    /\ scen = "lrange"
    /\ pc = 0
    /\ Written(BlockStmt(<< input.s >>, "void", << >>))
    /\ pc' = 1
    /\ UNCHANGED <<scen, input, st, trace>>

\* one line of the emitted loop runs, as C runs it: continue and the end of
\* the body lead to ++ks and the test of the for line, goto leads to its
\* label, a for line that is entered from above has no initialisation
ExecLRange ==
    /\ scen = "lrange"
    /\ pc >= 1
    /\ pc <= Len(out)
    /\ st.bodies < MaxIter \/ out[pc].k # "expr"
    /\ LET c == out[pc]
       IN  CASE c.k = "asg" ->
                   /\ st' = [st EXCEPT !.vars = (c.l.n :> Eval(c.r, st)) @@ st.vars]
                   /\ pc' = pc + 1
                   /\ trace' = trace
             [] c.k = "for" ->
                   /\ pc' = IF st.vars[c.e[1].n] < BoundOf(c.lab, st)
                            THEN pc + 1
                            ELSE CloseOf(out, pc + 1, 0) + 1
                   /\ UNCHANGED <<st, trace>>
             [] c.k = "if" ->
                   /\ pc' = IF Test(c.e[1], st) THEN pc + 1
                            ELSE CloseOf(out, pc + 1, 0) + 1
                   /\ UNCHANGED <<st, trace>>
             [] c.k = "expr" ->
                   /\ st' = [st EXCEPT !.bodies = @ + 1]
                   /\ pc' = pc + 1
                   /\ trace' = trace
             [] c.k = "goto" ->
                   /\ pc' = CHOOSE i \in LabelLines(out, c.lab) : TRUE
                   /\ UNCHANGED <<st, trace>>
             [] c.k = "continue" -> RangeStep(ForOf(out, pc))
             [] c.k = "}" /\ pc = CloseOf(out, ForOf(out, pc) + 1, 0) ->
                   RangeStep(ForOf(out, pc))
             [] OTHER ->
                   /\ pc' = pc + 1
                   /\ UNCHANGED <<st, trace>>
    /\ UNCHANGED <<scen, input, out, flag>>

NextLRange == TranslateLRange \/ ExecLRange

SpecLRange == InitLRange /\ [][NextLRange]_vars

LRangeDone == scen = "lrange" /\ pc = Len(out) + 1

\* C25: in the code emitted for a labelled range loop L over a sequence of
\* length n, continue L advances the key before the bound is tested, so the
\* body runs at most n times.
C25_LabelledContinueProgress == scen = "lrange" => st.bodies <= input.len

\* ---------------------------------------------------------------------------
\* Scenario "rmod": a range loop whose body changes the ranged variable is
\* translated and the emitted text is run as C.
\*     for i[, v] := range a { use(i, v); <change of a> }     and range (a)
\* ---------------------------------------------------------------------------

AssignS(l, r) ==
    [k |-> "assign", uid |-> 0,
     a |-> [Tok |-> "=", Lhs |-> << l >>, Rhs |-> << r >>, newv |-> {}]]

\* the statements that change the ranged variable a of type xt holding len
\* elements: none, a = b, and for an array a[len-1] = 9
RangeChanges(xt, len) ==
    {<< >>, << AssignS(TIdent("a", xt), TIdent("b", xt)) >>}
    \cup (IF xt = "array"
          THEN {<< AssignS(Index("a", Const(len - 1)), Const(9)) >>}
          ELSE {})

InitRMod ==
    /\ scen = "rmod"
    /\ \E xt \in {"array", "slice"}, len \in 1 .. ArrLen, blen \in 0 .. ArrLen,
          paren \in BOOLEAN, hasValue \in BOOLEAN, tok \in {":=", "="} :
          \E change \in RangeChanges(xt, len) :
             /\ xt = "array" => blen = len
             /\ input = [s |-> RangeS(IF paren THEN ParenExpr(TIdent("a", xt))
                                      ELSE TIdent("a", xt),
                                      xt, len, Ident("i"), hasValue, Ident("v"), tok,
                                      << UseCall >> \o change),
                         a |-> [p \in 1 .. len |-> p - 1],
                         b |-> [p \in 1 .. blen |-> p + 4],
                         change |-> change]
    /\ out = << >>
    /\ flag = FALSE
    /\ pc = 0
    /\ st = [vars |-> ("i$" :> 0) @@ ("v$" :> 0),
             seqs |-> ("a$" :> input.a) @@ ("b$" :> input.b)]
    /\ trace = << >>

TranslateRMod ==
    /\ scen = "rmod"
    /\ pc = 0
    /\ Written(Stmt(input.s, "", "void", << >>))
    /\ pc' = 1
    /\ UNCHANGED <<scen, input, st, trace>>

\* the value of a scalar C expression
RECURSIVE EvalIn(_, _)
EvalIn(ce, m) ==
    CASE ce.k = "lit" -> ce.v
      [] ce.k = "name" -> m.vars[ce.n]
      [] ce.k = "elem" -> m.seqs[ce.xs][EvalIn(ce.idx, m) + 1]

\* the array or slice a C expression denotes
RECURSIVE SeqIn(_, _)
SeqIn(ce, m) == IF ce.k = "paren" THEN SeqIn(ce.x, m) ELSE m.seqs[ce.n]

\* the value of the bound xl written into the for line
LenIn(xl, m) ==
    IF \E n \in DOMAIN m.seqs : xl = "len(" \o n \o ")"
    THEN Len(m.seqs[CHOOSE n \in DOMAIN m.seqs : xl = "len(" \o n \o ")"])
    ELSE CHOOSE n \in 0 .. (ArrLen + 1) : xl = ToString(n)

\* one line of the emitted loop runs
ExecRMod ==
    /\ scen = "rmod"
    /\ pc >= 1
    /\ pc <= Len(out)
    /\ LET c == out[pc]
       IN  CASE c.k = "init" ->
                   /\ st' = [st EXCEPT !.seqs = (c.n :> SeqIn(c.r, st)) @@ st.seqs]
                   /\ pc' = pc + 1
                   /\ trace' = trace
             [] c.k = "asg" /\ c.l.k = "elem" ->
                   /\ st' = [st EXCEPT !.seqs[c.l.xs][EvalIn(c.l.idx, st) + 1] =
                                           EvalIn(c.r, st)]
                   /\ pc' = pc + 1
                   /\ trace' = trace
             [] c.k = "asg" /\ c.l.k # "elem" /\ c.l.n \in DOMAIN st.seqs ->
                   /\ st' = [st EXCEPT !.seqs[c.l.n] = SeqIn(c.r, st)]
                   /\ pc' = pc + 1
                   /\ trace' = trace
             [] c.k = "asg" /\ c.l.k # "elem" /\ c.l.n \notin DOMAIN st.seqs ->
                   /\ st' = [st EXCEPT !.vars = (c.l.n :> EvalIn(c.r, st)) @@ st.vars]
                   /\ pc' = pc + 1
                   /\ trace' = trace
             [] c.k = "for" ->
                   /\ pc' = IF st.vars[c.e[1].n] < LenIn(c.lab, st)
                            THEN pc + 1
                            ELSE CloseOf(out, pc + 1, 0) + 1
                   /\ UNCHANGED <<st, trace>>
             [] c.k = "expr" ->
                   /\ trace' = Append(trace,
                                      [key |-> st.vars["i$"],
                                       val |-> IF RangeHasValue(input.s)
                                               THEN st.vars["v$"] ELSE -1])
                   /\ pc' = pc + 1
                   /\ st' = st
             [] c.k = "}" /\ pc = CloseOf(out, ForOf(out, pc) + 1, 0) ->
                   /\ st' = [st EXCEPT !.vars[out[ForOf(out, pc)].e[1].n] = @ + 1]
                   /\ pc' = ForOf(out, pc)
                   /\ trace' = trace
             [] OTHER ->
                   /\ pc' = pc + 1
                   /\ UNCHANGED <<st, trace>>
    /\ UNCHANGED <<scen, input, out, flag>>

NextRMod == TranslateRMod \/ ExecRMod

SpecRMod == InitRMod /\ [][NextRMod]_vars

RModDone == scen = "rmod" /\ pc = Len(out) + 1

\* C26: the emitted range loop evaluates its operand once, before the first
\* iteration: whatever the body does to the ranged variable, the body runs
\* once per index of the operand as it was at loop entry, and for an array
\* operand the value variable is bound to the elements the array had at loop
\* entry; for an identifier as operand and for any other expression.
C26_OperandEvaluatedOnce ==
    RModDone =>
        /\ Len(trace) = Len(input.a)
        /\ \A p \in 1 .. Len(trace) :
              /\ trace[p].key = p - 1
              /\ (input.s.xt = "array" /\ RangeHasValue(input.s)) =>
                    trace[p].val = input.a[p]

\* ---------------------------------------------------------------------------
\* Scenario "tokens": the text Expr writes for operator expressions, as the
\* sequence of pieces written to w, and its reading by a C lexer.  An
\* operand name is one piece, an operator is written character by character.
\* ---------------------------------------------------------------------------

\* the characters of an operator
OpChars(op) ==
    CASE op = "<<" -> <<"<", "<">>
      [] op = ">>" -> <<">", ">">>
      [] op = "&~" -> <<"&", "~">>
      [] op = "&&" -> <<"&", "&">>
      [] op = "||" -> <<"|", "|">>
      [] op = "<=" -> <<"<", "=">>
      [] op = ">=" -> <<">", "=">>
      [] op = "==" -> <<"=", "=">>
      [] op = "!=" -> <<"!", "=">>
      [] OTHER -> << op >>

\* the text of an emitted expression: "(" + lhs + op + rhs + ")" for a
\* binary operator, "(" + lhs + " " + op + " " + rhs + ")" for a comparison
\* written by eq, op + operand for a unary operator
RECURSIVE Pieces(_)
Pieces(ce) ==
    CASE ce.k = "binop" ->
            <<"(">> \o Pieces(ce.l) \o OpChars(ce.op) \o Pieces(ce.r) \o <<")">>
      [] ce.k = "cmp" ->
            <<"(">> \o Pieces(ce.l) \o <<" ">> \o OpChars(ce.op) \o <<" ">>
            \o Pieces(ce.r) \o <<")">>
      [] ce.k = "unop" -> OpChars(ce.op) \o Pieces(ce.x)
      [] ce.k = "paren" -> <<"(">> \o Pieces(ce.x) \o <<")">>
      [] ce.k = "name" -> << ce.n >>

BinaryOps == {"+", "-", "*", "/", "%", "&", "|", "^", "<<", ">>", "&^", "<", ">", "=="}
UnaryOps == {"-", "+", "^"}

\* operands: a variable, a unary operator on a variable, a dereference, a
\* unary operator on one of these, the same in parentheses
Operands1(n) ==
    {Ident(n), StarExpr(TIdent("p", "*int"))}
    \cup {UnaryExpr(op, Ident(n)) : op \in UnaryOps}

TokenExprs ==
    {BinaryExpr(op, x, y) : op \in BinaryOps, x \in Operands1("a"), y \in Operands1("b")}
    \cup {UnaryExpr(op, x) : op \in UnaryOps, x \in Operands1("a")}
    \cup {BinaryExpr(op, Ident("a"), ParenExpr(y)) :
             op \in {"+", "-", "/"}, y \in Operands1("b")}

InitTokens ==
    /\ scen = "tokens"
    /\ \E e \in TokenExprs : input = [e |-> e]
    /\ out = << >>
    /\ flag = FALSE
    /\ pc = 0
    /\ st = << >>
    /\ trace = << >>

\* cdd.Expr(w, e, nil) on an empty w
TranslateTokens ==
    /\ scen = "tokens"
    /\ pc = 0
    /\ out' = Pieces(Expr(input.e, ""))
    /\ pc' = 1
    /\ UNCHANGED <<scen, input, flag, st, trace>>

NextTokens == TranslateTokens

SpecTokens == InitTokens /\ [][NextTokens]_vars

TokensDone == scen = "tokens" /\ pc = 1

\* --- the C lexer ---

\* the punctuators of C that are made of two characters, and the opening
\* of a comment
CPairs ==
    {<<"+", "+">>, <<"-", "-">>, <<"-", ">">>, <<"<", "<">>, <<">", ">">>,
     <<"<", "=">>, <<">", "=">>, <<"=", "=">>, <<"!", "=">>, <<"&", "&">>,
     <<"|", "|">>, <<"+", "=">>, <<"-", "=">>, <<"*", "=">>, <<"/", "=">>,
     <<"%", "=">>, <<"&", "=">>, <<"|", "=">>, <<"^", "=">>,
     <<"/", "*">>, <<"/", "/">>}

\* the tokens of the text t from piece i on: white space separates tokens,
\* the longest punctuator that matches is taken
RECURSIVE CLex(_, _)
CLex(t, i) ==
    IF i > Len(t) THEN << >>
    ELSE IF t[i] = " " THEN CLex(t, i + 1)
    ELSE IF i < Len(t) /\ <<t[i], t[i + 1]>> \in CPairs
    THEN << t[i] \o t[i + 1] >> \o CLex(t, i + 2)
    ELSE << t[i] >> \o CLex(t, i + 1)

\* the C operator an operator of the source is translated to
COp(op) == CASE op = "&^" -> "&~" [] op = "^" -> "~" [] OTHER -> op

\* the tokens the expression stands for: each operator one token (& and ~
\* for &^), followed by the tokens of its operand
RECURSIVE GoTokens(_)
GoTokens(e) ==
    CASE e.k = "binary" ->
            <<"(">> \o GoTokens(e.x)
            \o (IF e.op = "&^" THEN <<"&", "~">>
                ELSE IF e.op = "^" THEN <<"^">> ELSE << e.op >>)
            \o GoTokens(e.y) \o <<")">>
      [] e.k = "unary" -> << COp(e.op) >> \o GoTokens(e.x)
      [] e.k = "star" -> <<"*">> \o GoTokens(e.x)
      [] e.k = "paren" -> <<"(">> \o GoTokens(e.x) \o <<")">>
      [] e.k = "ident" -> << e.n \o "$" >>

\* C27: the text Expr writes for a binary, unary or dereference expression
\* is read by a C lexer as the translated operator followed by the tokens
\* of its operand; no operator character forms a different token with the
\* first character of the operand written after it.
C27_OperatorTokens == TokensDone => CLex(out, 1) = GoTokens(input.e)

\* ---------------------------------------------------------------------------
\* Package dcf77: the decoder of the DCF77 time signal.
\* Durations and times are counted in milliseconds (the code counts
\* nanoseconds; every edge of the modelled signal falls on a millisecond).
\* ---------------------------------------------------------------------------

\* Time{} and the fields of Time
ZeroTime ==
    [Year |-> 0, Month |-> 0, Mday |-> 0, Wday |-> 0, Hour |-> 0, Min |-> 0,
     Sec |-> 0, Summer |-> FALSE]

\* the capacity of the channel made by NewDecoder
ChanCap == 1

\* d.error(err): the decoder afterwards and the result de
error(d, err) ==
    [d |-> [d EXCEPT !.pulse.Err = err, !.sec = -1, !.ones = 0],
     send |-> d.pulse.Err # err]

\* NewDecoder()
NewDecoder ==
    error([pulse |-> [Time |-> ZeroTime, Stamp |-> 0, Err |-> "nil"],
           next |-> ZeroTime, last |-> 0, sec |-> 0, ones |-> 0, c |-> << >>],
          "ErrTiming").d

checkRising(dt) ==
    IF dt > 2050 THEN -1
    ELSE CASE dt > 1950 -> 1
           [] dt > 1050 -> -1
           [] dt > 950 -> 0
           [] OTHER -> -1

\* d.risingEdge(dt)
risingEdge(d, dt) ==
    CASE checkRising(dt) = 0 ->
            IF d.sec >= 0
            THEN [d |-> [d EXCEPT !.sec = @ + 1,
                                  !.pulse.Time.Sec =
                                      IF d.pulse.Err = "nil" THEN (d.sec + 1) % 256 ELSE @],
                  send |-> TRUE]
            ELSE [d |-> d, send |-> FALSE]
      [] checkRising(dt) = 1 ->
            [d |-> [d EXCEPT !.pulse.Time = IF d.sec >= 0 THEN d.next ELSE @,
                             !.pulse.Err = IF d.sec >= 0 THEN "nil" ELSE "ErrInit",
                             !.sec = 0,
                             !.next = ZeroTime],
             send |-> TRUE]
      [] OTHER -> error(d, "ErrTiming")

checkFalling(dt) ==
    IF dt > 250 THEN -1
    ELSE CASE dt > 140 -> 1
           [] dt > 130 -> -1
           [] dt > 40 -> 0
           [] OTHER -> -1

\* 1 << n
Shl(n) == 2 ^ n

\* the field f of d.next takes up the bit of second d.sec, counted from
\* second from on; bytes wrap at 256
AddBit(d, bit, f, from) ==
    [d |-> IF bit # 0
           THEN [d EXCEPT !.ones = @ + 1,
                          !.next[f] = (@ + Shl(d.sec - from)) % 256]
           ELSE d,
     send |-> FALSE]

\* the parity checks of seconds 28, 35 and 58
Parity(d, bit) ==
    IF (d.ones + (IF bit # 0 THEN 1 ELSE 0)) % 2 # 0
    THEN error([d EXCEPT !.ones = @ + (IF bit # 0 THEN 1 ELSE 0)], "ErrBits")
    ELSE [d |-> [d EXCEPT !.ones = @ + (IF bit # 0 THEN 1 ELSE 0)], send |-> FALSE]

\* d.fallingEdge(dt) for a valid bit
Decode(d, bit) ==
    CASE d.sec = 0 -> IF bit # 0 THEN error(d, "ErrBits") ELSE [d |-> d, send |-> FALSE]
      [] d.sec # 0 /\ d.sec <= 16 -> [d |-> d, send |-> FALSE]
      [] d.sec = 17 -> [d |-> [d EXCEPT !.next.Summer = (bit = 1)], send |-> FALSE]
      [] d.sec = 18 ->
            IF d.next.Summer = (bit = 1) THEN error(d, "ErrBits")
            ELSE [d |-> d, send |-> FALSE]
      [] d.sec = 19 -> [d |-> d, send |-> FALSE]
      [] d.sec = 20 -> IF bit = 0 THEN error(d, "ErrBits") ELSE [d |-> d, send |-> FALSE]
      [] d.sec \in 21 .. 27 -> AddBit(d, bit, "Min", 21)
      [] d.sec = 28 -> Parity(d, bit)
      [] d.sec \in 29 .. 34 -> AddBit(d, bit, "Hour", 29)
      [] d.sec = 35 -> Parity(d, bit)
      [] d.sec \in 36 .. 41 -> AddBit(d, bit, "Mday", 36)
      [] d.sec \in 42 .. 44 -> AddBit(d, bit, "Wday", 42)
      [] d.sec \in 45 .. 49 -> AddBit(d, bit, "Month", 45)
      [] d.sec \in 50 .. 57 -> AddBit(d, bit, "Year", 50)
      [] d.sec = 58 -> Parity(d, bit)
      [] OTHER -> [d |-> d, send |-> FALSE]

\* d.fallingEdge(dt)
fallingEdge(d, dt) ==
    IF checkFalling(dt) < 0 THEN error(d, "ErrTiming")
    ELSE Decode(d, checkFalling(dt))

\* a send that lets the new pulse take the place of the buffered one
Send_Newest(c, p) == << p >>

\* select { case d.c <- p: default: }
Send(c, p) == IF Len(c) < ChanCap THEN Append(c, p) ELSE c

\* if rising && d.pulse.Err == nil { d.pulse.Stamp = t }
Stamped(d, t, rising) ==
    [d EXCEPT !.pulse.Stamp = IF rising /\ d.pulse.Err = "nil" THEN t ELSE @]

\* if send { select { case d.c <- d.pulse: default: } }
Deliver(d, send) == IF send THEN [d EXCEPT !.c = Send(d.c, d.pulse)] ELSE d

\* what risingEdge or fallingEdge returns in d.Edge(t, rising)
EdgeResult(d, t, rising) ==
    IF rising THEN risingEdge([d EXCEPT !.last = t], t - d.last)
    ELSE fallingEdge(d, t - d.last)

\* d.Edge(t, rising)
Edge(d, t, rising) ==
    Deliver(Stamped(EdgeResult(d, t, rising).d, t, rising),
            EdgeResult(d, t, rising).send)

decodeBCD(b) == (((b \div 16) * 10) + (b % 16)) % 256

\* t.decodeBCD()
TimeDecodeBCD(t) ==
    [t EXCEPT !.Year = decodeBCD(@), !.Month = decodeBCD(@), !.Mday = decodeBCD(@),
              !.Hour = decodeBCD(@), !.Min = decodeBCD(@)]

\* --- the signal ---

MaxMinute == 2

\* the times sent
SentTimes ==
    {[Year |-> 26, Month |-> 11, Mday |-> 2, Wday |-> 1, Hour |-> 20, Min |-> 49,
      Sec |-> 0, Summer |-> FALSE],
     [Year |-> 99, Month |-> 12, Mday |-> 31, Wday |-> 7, Hour |-> 23, Min |-> 59,
      Sec |-> 0, Summer |-> TRUE]}

BCD(v) == (v \div 10) * 16 + (v % 10)
BitOf(v, i) == (v \div (2 ^ i)) % 2

RECURSIVE OnesOf(_, _)
OnesOf(v, n) == IF n = 0 THEN 0 ELSE BitOf(v, n - 1) + OnesOf(v, n - 1)

\* the bit the transmitter sends in second q of the minute that carries tm
FrameBit(tm, q) ==
    CASE q \in 0 .. 16 -> 0
      [] q = 17 -> IF tm.Summer THEN 1 ELSE 0
      [] q = 18 -> IF tm.Summer THEN 0 ELSE 1
      [] q = 19 -> 0
      [] q = 20 -> 1
      [] q \in 21 .. 27 -> BitOf(BCD(tm.Min), q - 21)
      [] q = 28 -> OnesOf(BCD(tm.Min), 7) % 2
      [] q \in 29 .. 34 -> BitOf(BCD(tm.Hour), q - 29)
      [] q = 35 -> OnesOf(BCD(tm.Hour), 6) % 2
      [] q \in 36 .. 41 -> BitOf(BCD(tm.Mday), q - 36)
      [] q \in 42 .. 44 -> BitOf(tm.Wday, q - 42)
      [] q \in 45 .. 49 -> BitOf(BCD(tm.Month), q - 45)
      [] q \in 50 .. 57 -> BitOf(BCD(tm.Year), q - 50)
      [] q = 58 -> (OnesOf(BCD(tm.Mday), 6) + OnesOf(tm.Wday, 3)
                    + OnesOf(BCD(tm.Month), 5) + OnesOf(BCD(tm.Year), 8)) % 2

\* the time of the rising edge of second s, and the width of a mark
RiseAt(s) == 5000 + 1000 * s
WidthOf(bit) == IF bit = 1 THEN 200 ELSE 100

\* the first second after s that has a mark: second 59 of a minute is silent
Following(s) == IF (s + 1) % 60 = 59 THEN s + 2 ELSE s + 1

\* the seconds in which the next mark may come after the mark of second s:
\* the following one, and while nothing was disturbed yet the one after it
\* (a lost mark) or the silent second
NextMarks(s, disturbed) ==
    {Following(s)}
    \cup (IF disturbed THEN {}
          ELSE {Following(Following(s))}
               \cup (IF (s + 1) % 60 = 59 THEN {s + 1} ELSE {}))

\* the widths the mark of second s may have: that of its bit, and while
\* nothing was disturbed yet that of the other bit and one that is no bit
Widths(s, tm, disturbed) ==
    IF s % 60 = 59 THEN {WidthOf(0)}
    ELSE IF disturbed THEN {WidthOf(FrameBit(tm, s % 60))}
    ELSE {WidthOf(0), WidthOf(1), 135}

\* Scenario "dcf": the interrupt handler calls Edge for the edges of a signal
\* that carries input.tm in every minute and starts in second input.from of
\* a minute.  At most one disturbance happens (flag): a second mark is lost,
\* a mark appears in the silent second, a mark has the width of the other
\* bit or a width that is no bit.  pc is the second of the last mark,
\* st.high says that the last edge was a rising one.  st.sent counts the
\* pulses Edge produced and st.cn holds the number of the buffered one.
\* st.marks and st.clean say how many ordinary second marks were received
\* and that no error was reported since the last sync pulse, st.sync what
\* they and d.sec were when the last sync pulse came and whether it set the
\* pulse error to nil.
InitDcf ==
    /\ scen = "dcf"
    /\ \E tm \in SentTimes, from \in {0, 57, 58} :
          input = [tm |-> tm, from |-> from, until |-> from + 60 * MaxMinute + 2]
    /\ out = << >>
    /\ flag = FALSE
    /\ pc = input.from - 1
    /\ st = [d |-> NewDecoder, high |-> FALSE, sent |-> 0, cn |-> << >>, at |-> 0,
             marks |-> 0, clean |-> FALSE,
             sync |-> [published |-> FALSE, sec |-> -1, marks |-> 0, clean |-> FALSE]]
    /\ trace = << >>

\* d.Edge(t, rising) ran, r being what risingEdge or fallingEdge returned
\* and kind what checkRising made of a rising edge
Noted(r, t, rising, kind) ==
    st' = [st EXCEPT
             !.d = Deliver(Stamped(r.d, t, rising), r.send),
             !.high = rising,
             !.sent = IF r.send THEN @ + 1 ELSE @,
             !.cn = IF r.send THEN Send(@, st.sent + 1) ELSE @,
             !.marks = IF rising /\ kind = 1 THEN 0
                       ELSE IF rising /\ kind = 0 /\ st.d.sec >= 0 THEN @ + 1 ELSE @,
             !.clean = IF rising /\ kind = 1 THEN TRUE ELSE @ /\ r.d.sec # -1,
             !.sync = IF rising /\ kind = 1
                      THEN [published |-> r.d.pulse.Err = "nil", sec |-> st.d.sec,
                            marks |-> st.marks, clean |-> st.clean]
                      ELSE @]

\* the interrupt of the rising edge of the next mark
RisingStep ==
    /\ scen \in {"dcf", "handoff"}
    /\ ~st.high
    /\ \E n \in NextMarks(pc, flag) :
          /\ n < input.until
          /\ flag' = (flag \/ n # Following(pc))
          /\ Noted(EdgeResult(st.d, RiseAt(n), TRUE), RiseAt(n), TRUE,
                   checkRising(RiseAt(n) - st.d.last))
          /\ pc' = n
    /\ UNCHANGED <<scen, input, out, trace>>

\* the interrupt of the falling edge of the mark of second pc
FallingStep ==
    /\ scen \in {"dcf", "handoff"}
    /\ st.high
    /\ \E w \in Widths(pc, input.tm, flag) :
          /\ flag' = (flag \/ w # WidthOf(FrameBit(input.tm, pc % 60)))
          /\ Noted(EdgeResult(st.d, RiseAt(pc) + w, FALSE), RiseAt(pc) + w, FALSE, -1)
    /\ pc' = pc
    /\ UNCHANGED <<scen, input, out, trace>>

NextDcf == RisingStep \/ FallingStep

SpecDcf == InitDcf /\ [][NextDcf]_vars

\* C29: a sync pulse sets the pulse error to nil and publishes the decoded
\* time only if d.sec is 58 when it comes, that is if all second marks of
\* the minute were received and no timing or bit error was reported since
\* the sync pulse before; d.sec never exceeds 59.
C29_CompleteMinute ==
    scen = "dcf" =>
        /\ st.sync.published =>
              (st.sync.sec = 58 /\ st.sync.marks = 58 /\ st.sync.clean)
        /\ st.d.sec <= 59

\* ---------------------------------------------------------------------------
\* Scenario "handoff": the interrupt handler calls Edge for the edges of the
\* signal while another goroutine calls Pulse.  trace holds what the last
\* two calls of Pulse returned: the pulse p, its number n among the pulses
\* Edge produced, and the number at of pulses produced when it was taken.
\* st.at is the number of pulses produced when the buffer was last emptied.
\* ---------------------------------------------------------------------------

MaxPulses == 6

InitHandoff ==
    /\ scen = "handoff"
    /\ \E tm \in SentTimes, from \in {57, 58} :
          input = [tm |-> tm, from |-> from, until |-> from + 2 + MaxPulses]
    /\ out = << >>
    /\ flag \in BOOLEAN
    /\ pc = input.from - 1
    /\ st = [d |-> NewDecoder, high |-> FALSE, sent |-> 0, cn |-> << >>, at |-> 0,
             marks |-> 0, clean |-> FALSE,
             sync |-> [published |-> FALSE, sec |-> -1, marks |-> 0, clean |-> FALSE]]
    /\ trace = << >>

\* d.Pulse() once a pulse is in d.c: p := <-d.c; p.Time.decodeBCD()
Pulse(c) == [Head(c) EXCEPT !.Time = TimeDecodeBCD(@)]

\* a call of Pulse returns; it waits as long as d.c is empty
PulseStep ==
    /\ scen = "handoff"
    /\ Len(st.d.c) > 0
    /\ trace' = (IF Len(trace) = 2 THEN Tail(trace) ELSE trace)
                \o << [p |-> Pulse(st.d.c), n |-> Head(st.cn), at |-> st.sent] >>
    /\ st' = [st EXCEPT !.d.c = Tail(@), !.cn = Tail(@), !.at = st.sent]
    /\ UNCHANGED <<scen, input, out, flag, pc>>

NextHandoff == RisingStep \/ FallingStep \/ PulseStep

SpecHandoff == InitHandoff /\ [][NextHandoff]_vars

\* C28: Edge never waits, whatever Pulse does: the interrupt of the next
\* edge of the signal can always run.  The decoder buffers at most one
\* pulse; the buffered pulse is the first one produced since the buffer was
\* last emptied, the pulses produced after it while it was buffered are
\* discarded, so Pulse may return a pulse older than the latest produced;
\* the call of Pulse after that returns a pulse produced after the earlier
\* call took the buffered one.
C28_Handoff ==
    scen = "handoff" =>
        /\ st.high => ENABLED FallingStep
        /\ (~st.high /\ Following(pc) < input.until) => ENABLED RisingStep
        /\ Len(st.d.c) <= 1
        /\ Len(st.cn) = Len(st.d.c)
        /\ Len(st.d.c) = 1 => (st.cn[1] = st.at + 1 /\ st.cn[1] <= st.sent)
        /\ \A i \in 1 .. Len(trace) : trace[i].n <= trace[i].at
        /\ Len(trace) = 2 => trace[2].n > trace[1].at

\* Pulse returned a pulse older than the latest produced, and the call
\* after it a pulse produced later
C28_Witness ==
    /\ scen = "handoff"
    /\ Len(trace) = 2
    /\ trace[1].n < trace[1].at
    /\ trace[2].n > trace[1].at
    /\ Len(st.d.c) = 1
    /\ st.sent > st.cn[1]

====
